---- MODULE Spec2Model ----
(***************************************************************************)
(* Real-time context pipeline of knowledge-aligner:                        *)
(*   backend/realtime_entity_extraction.py  RealtimeEntityExtractor,       *)
(*                                          ContextMatcher                 *)
(*   backend/redis_context_buffer.py        RedisContextBuffer             *)
(*   backend/two_tier_orchestrator.py       TwoTierOrchestrator            *)
(*                                                                         *)
(* Scores are floats in the source.  Here a score is the exact rational    *)
(* [num |-> n, den |-> d] (value n/d); 2.0, 1.5, 1.0, 0.8 and 0.7 are      *)
(* 20/10, 15/10, 10/10, 8/10 and 7/10.  Entity lists are modelled as sets: *)
(* the code only takes set(), len() and truthiness of them.                *)
(***************************************************************************)
EXTENDS Integers, Sequences, FiniteSets, TLC

VARIABLES
    mNew,      \* ContextMatcher: b_entities of the call
    mBuf,      \* ContextMatcher: buffer_entities of the call (a list)
    mOverlap,  \* result of calculate_overlap_score(mNew, mBuf)
    mInject,   \* result of should_inject_context(mNew, mBuf, t), per threshold t
    now,       \* time.time(), in seconds
    connected, \* RedisContextBuffer.redis_client is set
    zset,      \* Redis: channel -> sorted set at the channel key, lowest score first
    expiry,    \* Redis: channel -> time the channel key expires at, or NoExpiry
    nAdds,     \* buffer calls: add_message calls that reached ZADD
    nTicks,    \* number of clock steps taken
    lastOp,    \* buffer calls: the latest call and what it returned
    calls,     \* process_incoming_message calls, in order of arrival
    stats,     \* TwoTierOrchestrator.stats
    dbUp,      \* TwoTierOrchestrator.db_pool is set
    decisions, \* SQL table decisions
    gaps,      \* SQL table gaps
    faults,    \* number of failures of external services so far
    runs,      \* EmbeddingPipeline: batch run -> the batch it fetched, if any
    search,    \* HybridRetrieval: the rows it searches and its latest call
    detector,  \* GapDetector: the tables it reads and its latest report
    extractor, \* RealtimeEntityExtractor: its clients and its latest call
    dbm        \* DatabaseManager: decision_details and its latest call

matcherVars == <<mNew, mBuf, mOverlap, mInject>>
bufferVars  == <<now, connected, zset, expiry>>
driverVars  == <<nAdds, nTicks, lastOp>>
orchVars    == <<calls, stats, dbUp, decisions, gaps, faults>>

\* The components that are exercised on their own
unitVars    == <<runs, search, detector, extractor, dbm>>

vars == <<matcherVars, bufferVars, driverVars, orchVars, unitVars>>

-----------------------------------------------------------------------------
(* ExtractedEntities (fields the matcher and the orchestrator read)        *)

Entities(r, c, u, t, conf) ==
    [reqs |-> r, components |-> c, users_mentioned |-> u, topics |-> t,
     confidence |-> conf]

Score(n, d) == [num |-> n, den |-> d]

Zero == Score(0, 10)

\* n/d >= 0.6
AtLeastSixTenths(s) == s.num * 10 >= 6 * s.den

-----------------------------------------------------------------------------
(* ContextMatcher                                                          *)

synonym_map(c) ==
    CASE c = "thermal"  -> {"heat", "temperature", "cooling", "dissipation"}
      [] c = "power"    -> {"supply", "voltage", "current", "battery", "electrical"}
      [] c = "motor"    -> {"actuator", "drive", "stepper", "servo"}
      [] c = "pcb"      -> {"board", "circuit", "layout"}
      [] c = "firmware" -> {"software", "code", "programming"}
      [] c = "testing"  -> {"validation", "qa", "verification"}
      [] OTHER          -> {}

core_components == {"motor", "pcb", "firmware", "power_supply"}

\* Credit of one compared pair, in tenths: 10 direct, 7 synonym, 0 otherwise.
PairCredit_Half(b_comp, buf_comp) ==
    IF b_comp = buf_comp THEN 10
    ELSE IF \/ buf_comp \in synonym_map(b_comp)
            \/ b_comp \in synonym_map(buf_comp)
            \/ synonym_map(b_comp) \cap synonym_map(buf_comp) # {}
         THEN 5
         ELSE 0

PairCredit(b_comp, buf_comp) ==
    IF b_comp = buf_comp THEN 10
    ELSE IF \/ buf_comp \in synonym_map(b_comp)
            \/ b_comp \in synonym_map(buf_comp)
            \/ synonym_map(b_comp) \cap synonym_map(buf_comp) # {}
         THEN 7
         ELSE 0

RECURSIVE SumCredit(_)
SumCredit(pairs) ==
    IF pairs = {} THEN 0
    ELSE LET p == CHOOSE q \in pairs : TRUE
         IN  PairCredit(p[1], p[2]) + SumCredit(pairs \ {p})

\* matches / max(total_comparisons, 1)
CalculateSynonymOverlap(b_components, buffer_components) ==
    LET pairs == b_components \X buffer_components
        total == Cardinality(pairs)
    IN  Score(SumCredit(pairs), 10 * (IF total > 1 THEN total ELSE 1))

RECURSIVE UnionField(_, _)
UnionField(buffer_entities, f) ==
    IF buffer_entities = <<>> THEN {}
    ELSE Head(buffer_entities)[f] \cup UnionField(Tail(buffer_entities), f)

\* Tier 1: REQ-ID exact match
ReqTier_Weight15(req_matches) ==
    [tier |-> "high", score |-> Score(15 * req_matches, 10)]

ReqTier(req_matches) ==
    [tier |-> "high", score |-> Score(20 * req_matches, 10)]

\* Tier 2: component exact match (component_matches >= 1)
ComponentTier_NoCore(b_components, all_buffer_components) ==
    LET component_matches == Cardinality(b_components \cap all_buffer_components)
    IN  IF component_matches >= 2
          THEN [tier |-> "high", score |-> Score(15 * component_matches, 10)]
          ELSE [tier |-> "medium", score |-> Score(10, 10)]

ComponentTier(b_components, all_buffer_components) ==
    LET component_matches == Cardinality(b_components \cap all_buffer_components)
    IN  IF component_matches >= 2
          THEN [tier |-> "high", score |-> Score(15 * component_matches, 10)]
          ELSE IF b_components \cap core_components \cap all_buffer_components # {}
                 THEN [tier |-> "high", score |-> Score(15, 10)]
                 ELSE [tier |-> "medium", score |-> Score(10, 10)]

CalculateOverlapScore(b_entities, buffer_entities) ==
    IF buffer_entities = <<>> THEN [tier |-> "none", score |-> Zero]
    ELSE
    LET all_buffer_reqs       == UnionField(buffer_entities, "reqs")
        all_buffer_components == UnionField(buffer_entities, "components")
        all_buffer_topics     == UnionField(buffer_entities, "topics")
        req_matches       == Cardinality(b_entities.reqs \cap all_buffer_reqs)
        b_components      == b_entities.components
        component_matches == Cardinality(b_components \cap all_buffer_components)
        topic_matches     == Cardinality(b_entities.topics \cap all_buffer_topics)
        synonym_score     == CalculateSynonymOverlap(b_components, all_buffer_components)
    IN  IF req_matches > 0 THEN ReqTier(req_matches)
        ELSE IF component_matches >= 1
          THEN ComponentTier(b_components, all_buffer_components)
        ELSE IF topic_matches >= 2
          THEN [tier |-> "medium", score |-> Score(8 * topic_matches, 10)]
        ELSE IF AtLeastSixTenths(synonym_score)
          THEN [tier |-> "medium", score |-> synonym_score]
        ELSE [tier |-> "none", score |-> Zero]

confidence_levels(c) ==
    CASE c = "high" -> 3 [] c = "medium" -> 2 [] c = "low" -> 1 [] OTHER -> 0

\* threshold_levels.get(confidence_threshold, 2)
threshold_levels(t) ==
    CASE t = "high" -> 3 [] t = "medium" -> 2 [] t = "low" -> 1 [] OTHER -> 2

ShouldInjectContext_GuardInverted(b_entities, buffer_entities, confidence_threshold) ==
    IF /\ b_entities.reqs = {}
       /\ b_entities.components = {}
       /\ b_entities.topics = {}
    THEN [inject |-> TRUE, tier |-> "none", score |-> Zero]
    ELSE LET r == CalculateOverlapScore(b_entities, buffer_entities)
         IN  [inject |-> /\ confidence_levels(r.tier)
                              >= threshold_levels(confidence_threshold)
                         /\ r.score.num > 0,
              tier   |-> r.tier,
              score  |-> r.score]

ShouldInjectContext(b_entities, buffer_entities, confidence_threshold) ==
    IF /\ b_entities.reqs = {}
       /\ b_entities.components = {}
       /\ b_entities.topics = {}
    THEN [inject |-> FALSE, tier |-> "none", score |-> Zero]
    ELSE LET r == CalculateOverlapScore(b_entities, buffer_entities)
         IN  [inject |-> /\ confidence_levels(r.tier)
                              >= threshold_levels(confidence_threshold)
                         /\ r.score.num > 0,
              tier   |-> r.tier,
              score  |-> r.score]

-----------------------------------------------------------------------------
(* RealtimeEntityExtractor.  A message text is the set of its lower-case   *)
(* words; a requirement ID and an @-mention are words of their own.        *)

RequirementIds == {"REQ-245", "REQ-246"}

Mentions == {"@alice", "@bob"}

\* component_patterns: component -> the words of its pattern
component_patterns(c) ==
    CASE c = "motor"        -> {"motor", "actuator", "servo", "stepper"}
      [] c = "pcb"          -> {"pcb", "circuit board", "board"}
      [] c = "power_supply" -> {"power supply", "psu", "voltage", "current"}
      [] c = "firmware"     -> {"firmware", "software", "code"}
      [] c = "thermal"      -> {"thermal", "heat", "temperature", "cooling"}
      [] c = "mechanical"   -> {"mechanical", "mounting", "assembly"}
      [] c = "security"     -> {"security", "encryption", "auth"}
      [] c = "testing"      -> {"validation", "testing", "qa", "test"}
      [] c = "architecture" -> {"architecture", "system", "integration"}
      [] c = "protocol"     -> {"protocol", "communication", "interface"}

PatternComponents ==
    {"motor", "pcb", "power_supply", "firmware", "thermal", "mechanical",
     "security", "testing", "architecture", "protocol"}

\* topic_patterns: topic -> the words of its pattern
topic_patterns(t) ==
    CASE t = "mechanical_specs"        -> {"torque", "force", "power"}
      [] t = "thermal_management"      -> {"temperature", "thermal", "heat"}
      [] t = "electrical_specs"        -> {"voltage", "current", "power"}
      [] t = "communication_protocols" -> {"can bus", "i2c", "spi", "uart"}
      [] t = "pcb_design"              -> {"stackup", "layer", "trace"}
      [] t = "security_features"       -> {"boot", "secure", "encryption"}

PatternTopics ==
    {"mechanical_specs", "thermal_management", "electrical_specs",
     "communication_protocols", "pcb_design", "security_features"}

\* _extract_with_regex
ExtractWithRegex(words) ==
    Entities(words \cap RequirementIds,
             {c \in PatternComponents : component_patterns(c) \cap words # {}},
             words \cap Mentions,
             {t \in PatternTopics : topic_patterns(t) \cap words # {}},
             60)

-----------------------------------------------------------------------------
(* Redis sorted set with a key expiry, as RedisContextBuffer uses it       *)

Channels == {"hardware-team", "firmware-team"}

NoExpiry == -1

BUFFER_TTL == 7200

MAX_MESSAGES_PER_CHANNEL == 30

\* decision_id = None
NoDecision == <<>>

\* LiveContextMessage
LiveContextMessage(message_id, user_id, text, entities, decision_id, timestamp, channel_id) ==
    [message_id |-> message_id, user_id |-> user_id, text |-> text,
     entities |-> entities, decision_id |-> decision_id,
     timestamp |-> timestamp, channel_id |-> channel_id]

\* json.dumps(asdict(self)): the fields in declaration order
ToRedisJson(m) ==
    <<m.message_id, m.user_id, m.text, m.entities, m.decision_id, m.timestamp,
      m.channel_id>>

\* cls(**json.loads(data))
FromRedisJson(j) == LiveContextMessage(j[1], j[2], j[3], j[4], j[5], j[6], j[7])

\* Sorted-set order: by score, ties by member (the JSON text, which starts
\* with the message id).  A sorted set is the list of its [member, score]
\* pairs in this order, lowest first.
Before(a, b) ==
    \/ a.score < b.score
    \/ a.score = b.score /\ a.member[1] < b.member[1]

\* Redis index normalisation of a [start, stop] rank range over n elements:
\* the 0-based ranks <<first, last>> it covers (first > last: none).
RankRange(n, start, stop) ==
    LET s0 == IF start < 0 THEN n + start ELSE start
        e0 == IF stop < 0 THEN n + stop ELSE stop
        s1 == IF s0 < 0 THEN 0 ELSE s0
        e1 == IF e0 >= n THEN n - 1 ELSE e0
    IN  IF s1 > e1 \/ s1 >= n THEN <<0, -1>> ELSE <<s1, e1>>

\* ZADD key score member: a member already present is moved to its new score
ZAdd(z, member, score) ==
    LET e    == [member |-> member, score |-> score]
        rest == SelectSeq(z, LAMBDA x : x.member # member)
        k    == Cardinality({i \in DOMAIN rest : Before(rest[i], e)})
    IN  SubSeq(rest, 1, k) \o <<e>> \o SubSeq(rest, k + 1, Len(rest))

\* ZREMRANGEBYRANK key start stop
ZRemRangeByRank(z, start, stop) ==
    LET r == RankRange(Len(z), start, stop)
    IN  IF r[1] > r[2] THEN z
        ELSE SubSeq(z, 1, r[1]) \o SubSeq(z, r[2] + 2, Len(z))

\* ZREVRANGE key start stop WITHSCORES: a list, highest score first
ZRevRange(z, start, stop) ==
    LET r == RankRange(Len(z), start, stop)
    IN  IF r[1] > r[2] THEN <<>>
        ELSE [i \in 1 .. (r[2] - r[1] + 1) |-> z[Len(z) - (r[1] + i - 1)]]

\* An expired key is deleted by the server.
Purge(z, ex, t) ==
    [c \in Channels |-> IF ex[c] # NoExpiry /\ t >= ex[c] THEN <<>> ELSE z[c]]

PurgeExpiry(ex, t) ==
    [c \in Channels |-> IF ex[c] # NoExpiry /\ t >= ex[c] THEN NoExpiry ELSE ex[c]]

-----------------------------------------------------------------------------
(* RedisContextBuffer                                                      *)

\* The Redis command of add_message that raises, if any.
AddFailures == {"none", "zadd", "zremrangebyrank", "expire"}

\* add_message(channel_id, message): the effect on the store and the value
\* returned, when the command `fail` raises (none: no command raises).
AddMessage(z, ex, t, isConnected, channel_id, message, fail) ==
    IF ~isConnected THEN [zset |-> z, expiry |-> ex, ok |-> FALSE]
    ELSE IF fail = "zadd" THEN [zset |-> z, expiry |-> ex, ok |-> FALSE]
    ELSE
    LET added   == ZAdd(z[channel_id], ToRedisJson(message), t)
        trimmed == ZRemRangeByRank(added, 0, -(MAX_MESSAGES_PER_CHANNEL + 1))
    IN  IF fail = "zremrangebyrank"
          THEN [zset |-> [z EXCEPT ![channel_id] = added], expiry |-> ex,
                ok |-> FALSE]
        ELSE IF fail = "expire"
          THEN [zset |-> [z EXCEPT ![channel_id] = trimmed], expiry |-> ex,
                ok |-> FALSE]
        ELSE [zset   |-> [z EXCEPT ![channel_id] = trimmed],
              expiry |-> [ex EXCEPT ![channel_id] = t + BUFFER_TTL],
              ok     |-> TRUE]

RECURSIVE ParseFresh(_, _)
ParseFresh(raw_messages, cutoff_timestamp) ==
    IF raw_messages = <<>> THEN <<>>
    ELSE LET h == Head(raw_messages)
             rest == ParseFresh(Tail(raw_messages), cutoff_timestamp)
         IN  IF h.score >= cutoff_timestamp
               THEN <<FromRedisJson(h.member)>> \o rest
               ELSE rest

\* get_recent_context(channel_id, max_messages, max_age_minutes); `fails`:
\* the ZREVRANGE command raises.
GetRecentContext(z, t, isConnected, channel_id, max_messages, max_age_minutes, fails) ==
    IF ~isConnected \/ fails THEN <<>>
    ELSE ParseFresh(ZRevRange(z[channel_id], 0, max_messages - 1),
                    t - max_age_minutes * 60)

-----------------------------------------------------------------------------
(* TwoTierOrchestrator.  processing_time_ms, extraction_time_ms and        *)
(* avg_processing_time_ms (wall-clock measurements) are left out.          *)

decision_keywords ==
    {"decision", "decided", "approved", "selected", "chose", "updated",
     "changed", "requirement", "spec"}

\* The decision keywords that occur in a word (keyword in message_text.lower()
\* is a substring test).
KeywordsIn(word) ==
    CASE word \in decision_keywords -> {word}
      [] word = "requirements"      -> {"requirement"}
      [] word = "specs"             -> {"spec"}
      [] OTHER                      -> {}

HasDecisionKeyword(words) == \E w \in words : KeywordsIn(w) # {}

IsDecisionWorthy_AtLeast08(entities, words) ==
    IF entities.reqs # {} THEN TRUE
    ELSE IF Cardinality(entities.components) >= 2 /\ HasDecisionKeyword(words)
      THEN TRUE
    ELSE IF entities.confidence >= 80 /\ Cardinality(entities.topics) >= 2
      THEN TRUE
    ELSE FALSE

\* _is_decision_worthy; confidence is in hundredths
IsDecisionWorthy(entities, words) ==
    IF entities.reqs # {} THEN TRUE
    ELSE IF Cardinality(entities.components) >= 2 /\ HasDecisionKeyword(words)
      THEN TRUE
    ELSE IF entities.confidence > 80 /\ Cardinality(entities.topics) >= 2
      THEN TRUE
    ELSE FALSE

Digit(d) == <<"0", "1", "2", "3", "4", "5", "6", "7", "8", "9">>[d + 1]

RECURSIVE Decimal(_)
\* str(k), one character per element
Decimal(k) == IF k < 10 THEN <<Digit(k)>>
              ELSE Decimal(k \div 10) \o <<Digit(k % 10)>>

\* The message_id string of the n-th message handled, one character per
\* element, in the format of the demo messages: "msg_20240115_143000",
\* "msg_20240115_143001", ...
MessageIdOf(n) ==
    <<"m", "s", "g", "_", "2", "0", "2", "4", "0", "1", "1", "5", "_">>
       \o Decimal(143000 + n - 1)

\* message_id[:8]
IdPrefixLen == 8

\* f"{timestamp.strftime('%Y%m%d_%H%M%S')}_{message_id[:8]}": the timestamp
\* to the second (timestamps are whole seconds here) and the first eight
\* characters of the message_id.  message_id is the number of the message.
DecisionId(timestamp, message_id) ==
    LET id == MessageIdOf(message_id)
    IN  <<timestamp,
          SubSeq(id, 1, IF Len(id) < IdPrefixLen THEN Len(id) ELSE IdPrefixLen)>>

\* _create_decision_record; `fail`: the INSERT raises
CreateDecisionRecord(table, pool, c, entities, fail) ==
    IF ~pool THEN [decisions |-> table, id |-> NoDecision, failed |-> FALSE]
    ELSE IF fail THEN [decisions |-> table, id |-> NoDecision, failed |-> TRUE]
    ELSE LET decision_id == DecisionId(c.timestamp, c.message_id)
         IN  [decisions |->
                table \cup {[decision_id         |-> decision_id,
                             thread_id           |-> <<c.channel_id, c.message_id>>,
                             timestamp           |-> c.timestamp,
                             author_user_id      |-> c.user_id,
                             decision_text       |-> c.text,
                             affected_components |-> entities.components,
                             referenced_reqs     |-> entities.reqs,
                             embedding_status    |-> "pending",
                             embedding           |-> "none"]},
              id |-> decision_id, failed |-> FALSE]

\* What _check_context_injection returns: nothing to inject
NotInjected == [context_injected |-> FALSE, gap_created |-> FALSE]

\* ... context was injected
Injected(gap_created, confidence, matching_contexts) ==
    [context_injected |-> TRUE, gap_created |-> gap_created,
     confidence |-> confidence,
     matching_contexts_count |-> Len(matching_contexts),
     response |-> "response_text"]

\* ... except Exception of _check_context_injection
InnerExcept ==
    [context_injected |-> FALSE, gap_created |-> FALSE, error |-> "str(e)"]

\* The dictionary process_incoming_message returns: its own keys and
\* **context_result
Result(decision_id, entities, ctx) ==
    [decision_created   |-> decision_id # NoDecision,
     decision_id        |-> decision_id,
     entities_extracted |-> Cardinality(entities.reqs)
                               + Cardinality(entities.components)] @@ ctx

\* No dictionary returned yet
NoResult == <<>>

OuterExcept_Reraise(c) == [c EXCEPT !.pc = "raised"]

\* except Exception of process_incoming_message
OuterExcept(c) ==
    [c EXCEPT !.pc = "done",
              !.matching_contexts = <<>>,
              !.result = [decision_created |-> FALSE,
                          context_injected |-> FALSE,
                          gap_created      |-> FALSE,
                          error            |-> "str(e)"]]

\* "Update stats" and the return statement; `fail`: building the returned
\* dictionary raises (after the counters were updated).
Finish(c, st, ctx, fail) ==
    LET st1 == [st EXCEPT
                  !.messages_processed = @ + 1,
                  !.context_injections = IF ctx.context_injected THEN @ + 1 ELSE @,
                  !.gaps_created = IF ctx.gap_created THEN @ + 1 ELSE @]
    IN  [stats |-> st1,
         call  |-> IF fail THEN OuterExcept([c EXCEPT !.interrupted = TRUE])
                   ELSE [c EXCEPT
                           !.pc = "done",
                           !.matching_contexts = <<>>,
                           !.result = Result(c.decision_id, c.entities, ctx)]]

\* f"@{user_id}"
Mention(user_id) ==
    CASE user_id = "alice" -> "@alice"
      [] user_id = "bob"   -> "@bob"

RECURSIVE MatchingContexts(_, _)
\* "Find matching context messages"
MatchingContexts(b_entities, context_messages) ==
    IF context_messages = <<>> THEN <<>>
    ELSE LET msg  == Head(context_messages)
             r    == CalculateOverlapScore(b_entities, <<msg.entities>>)
             rest == MatchingContexts(b_entities, Tail(context_messages))
         IN  IF r.tier \in {"high", "medium"}
               THEN <<[message |-> msg, confidence |-> r.tier, score |-> r.score]>>
                       \o rest
               ELSE rest

EntitiesOf(context_messages) ==
    [i \in DOMAIN context_messages |-> context_messages[i].entities]

\* _generate_gap_id: MAX(CAST(gap_id AS INTEGER)) + 1
GenerateGapId(table) ==
    IF table = {} THEN 1
    ELSE (CHOOSE g \in table : \A h \in table : h.gap_id <= g.gap_id).gap_id + 1

\* _create_gap_if_needed; `fail`: the INSERT raises.  created: a gap_id
\* (not None) is returned.
CreateGapIfNeeded(table, pool, matching_contexts, user_id, fail) ==
    IF ~pool THEN [gaps |-> table, created |-> FALSE]
    ELSE IF \E i \in DOMAIN matching_contexts :
              Mention(user_id)
                  \in matching_contexts[i].message.entities.users_mentioned
      THEN [gaps |-> table, created |-> FALSE]
    ELSE IF fail THEN [gaps |-> table, created |-> FALSE]
    ELSE [gaps |-> table \cup {[gap_id      |-> GenerateGapId(table),
                                type        |-> "missing_stakeholder",
                                severity    |-> "warning",
                                assignee_id |-> user_id]},
          created |-> TRUE]

-----------------------------------------------------------------------------
(* EmbeddingPipeline: batch runs over the decisions table                  *)

MaxRuns == 2

Runs == 1..MaxRuns

IdleRun == [pc |-> "idle", batch |-> {}]

\* No batch run has fetched anything
RunsIdle == runs = [r \in Runs |-> IdleRun]

\* ORDER BY created_at ASC: rows are created in the order of their message
\* numbers (the second part of thread_id)
CreatedBefore(a, b) == a.thread_id[2] < b.thread_id[2]

\* get_pending_decisions: the decision_ids of the oldest batch_size rows
\* WHERE embedding_status = 'pending'
GetPendingDecisions(table, batch_size) ==
    LET pending == {d \in table : d.embedding_status = "pending"}
    IN  {d.decision_id :
            d \in {p \in pending :
                     Cardinality({q \in pending : CreatedBefore(q, p)}) < batch_size}}

\* UPDATE decisions SET embedding_status = status WHERE decision_id IN ids
SetStatus(table, ids, status) ==
    {IF d.decision_id \in ids THEN [d EXCEPT !.embedding_status = status] ELSE d :
        d \in table}

UpdateEmbeddings_StatusOnly(table, decision_ids, raised) ==
    SetStatus(SetStatus(table, decision_ids \ raised, "embedded"),
              decision_ids \cap raised, "failed")

\* UPDATE decisions SET embedding = $1::vector, embedding_status = 'embedded'
\* WHERE decision_id IN ids
SetEmbedding(table, ids) ==
    {IF d.decision_id \in ids
       THEN [d EXCEPT !.embedding = "vector", !.embedding_status = "embedded"]
       ELSE d :
        d \in table}

\* update_embeddings once its transaction commits: the rows of the batch
\* whose UPDATE raised are marked failed, the others get their embedding
\* and the status embedded
UpdateEmbeddings(table, decision_ids, raised) ==
    SetStatus(SetEmbedding(table, decision_ids \ raised),
              decision_ids \cap raised, "failed")

\* cleanup_failed_embeddings
CleanupFailedEmbeddings(table) ==
    SetStatus(table,
              {d.decision_id : d \in {x \in table : x.embedding_status = "failed"}},
              "pending")

-----------------------------------------------------------------------------
(* HybridRetrieval.  A row of decisions carries its embedding ("vector",   *)
(* or "none" for NULL) and `dot`, the dot product of that embedding with   *)
(* the embedding of the query, in hundredths.  Timestamps are in days.     *)

SearchIdle == search = [rows |-> <<>>, last |-> [op |-> "none"]]

\* query_text of a call: empty, whitespace only, or with words
Blank(query_text) == query_text \in {"", "  "}

\* min(100, limit * 5)
Min(a, b) == IF a <= b THEN a ELSE b

\* The first n elements of a list: list[:n] for n >= 0
Take(list, n) == SubSeq(list, 1, Min(n, Len(list)))

RECURSIVE NewestFirst(_)
\* ORDER BY timestamp DESC of rows stored in the order of their timestamps
NewestFirst(rows) ==
    IF rows = <<>> THEN <<>>
    ELSE <<rows[Len(rows)]>> \o NewestFirst(SubSeq(rows, 1, Len(rows) - 1))

SqlFilter_NoLimit(rows, today, user_components, time_filter_days, limit) ==
    LET hit(r) == /\ r.embedding_status = "embedded"
                  /\ user_components # {} =>
                        r.affected_components \cap user_components # {}
                  /\ r.timestamp >= today - time_filter_days
    IN  NewestFirst(SelectSeq(rows, hit))

\* sql_filter: WHERE ... ORDER BY timestamp DESC LIMIT limit
SqlFilter(rows, today, user_components, time_filter_days, limit) ==
    LET hit(r) == /\ r.embedding_status = "embedded"
                  /\ user_components # {} =>
                        r.affected_components \cap user_components # {}
                  /\ r.timestamp >= today - time_filter_days
    IN  Take(NewestFirst(SelectSeq(rows, hit)), limit)

\* RetrievalResult of a candidate with the given similarity_score
RetrievalResult(candidate, similarity_score) ==
    [decision_id |-> candidate.decision_id,
     affected_components |-> candidate.affected_components,
     timestamp |-> candidate.timestamp,
     similarity_score |-> similarity_score]

RECURSIVE InsertBySimilarity(_, _)
\* Put result x into a list that is sorted by similarity_score, highest
\* first, before the first element with a lower score
InsertBySimilarity(sorted, x) ==
    IF sorted = <<>> THEN <<x>>
    ELSE IF Head(sorted).similarity_score < x.similarity_score
      THEN <<x>> \o sorted
    ELSE <<Head(sorted)>> \o InsertBySimilarity(Tail(sorted), x)

RECURSIVE SortBySimilarity(_, _)
\* results.sort(key=similarity_score, reverse=True): a stable sort
SortBySimilarity(sorted, results) ==
    IF results = <<>> THEN sorted
    ELSE SortBySimilarity(InsertBySimilarity(sorted, Head(results)), Tail(results))

SemanticSearch_Unsorted(candidates, limit) ==
    Take([i \in DOMAIN candidates |->
            RetrievalResult(candidates[i],
                            IF candidates[i].embedding # "none"
                              THEN candidates[i].dot ELSE 0)],
         limit)

\* semantic_search once the query is encoded
SemanticSearch(candidates, limit) ==
    Take(SortBySimilarity(<<>>,
            [i \in DOMAIN candidates |->
               RetrievalResult(candidates[i],
                               IF candidates[i].embedding # "none"
                                 THEN candidates[i].dot ELSE 0)]),
         limit)

RetrievalStats(semantic_search_time_ms, candidates, results, query_type) ==
    [semantic_search_time_ms |-> semantic_search_time_ms,
     candidates_found |-> Len(candidates),
     final_results |-> Len(results),
     query_type |-> query_type]

SqlOnly_NoLimit(candidates, limit) ==
    [i \in DOMAIN candidates |->
       RetrievalResult(candidates[i], candidates[i].similarity_score)]

\* hybrid_search, "Pure SQL filtering": the results of a blank query
SqlOnly(candidates, limit) ==
    [i \in DOMAIN Take(candidates, limit) |->
       RetrievalResult(candidates[i], candidates[i].similarity_score)]

\* hybrid_search; encoder_up: init_model and model.encode succeed.  The
\* returned record keeps the inputs and the stage-1 candidates of the call.
HybridSearch(rows, today, query_text, user_components, time_filter_days, limit, encoder_up) ==
    LET candidates == SqlFilter(rows, today, user_components, time_filter_days,
                                Min(100, limit * 5))
        call == [op |-> "hybrid_search", query_text |-> query_text,
                 user_components |-> user_components,
                 time_filter_days |-> time_filter_days, today |-> today,
                 limit |-> limit, encoder_up |-> encoder_up,
                 candidates |-> candidates]
    IN  IF Blank(query_text)
          THEN LET results == SqlOnly(candidates, limit)
               IN  call @@ [outcome |-> "returned", results |-> results,
                            stats |-> RetrievalStats(0, candidates, results,
                                                     "sql_only")]
        ELSE IF candidates # <<>> /\ ~encoder_up
          THEN call @@ [outcome |-> "raised"]
        ELSE LET results == SemanticSearch(candidates, limit)
             IN  call @@ [outcome |-> "returned", results |-> results,
                          stats |-> RetrievalStats(1, candidates, results,
                                                   "hybrid")]

-----------------------------------------------------------------------------
(* GapDetector.  Timestamps are hours.  A decision text is known by the    *)
(* words of the contradiction patterns that occur in it and by the         *)
(* pairs that the "X to Y" pattern finds in it.                            *)

Range(q) == {q[i] : i \in DOMAIN q}

RECURSIVE Flatten(_)
\* The lists of a list, one after the other
Flatten(lists) ==
    IF lists = <<>> THEN <<>> ELSE Head(lists) \o Flatten(Tail(lists))

RECURSIVE FirstSeen(_)
\* The distinct elements of a list in the order of their first occurrence:
\* the keys of a dict that is filled in that order
FirstSeen(list) ==
    IF list = <<>> THEN <<>>
    ELSE LET rest == FirstSeen(SubSeq(list, 1, Len(list) - 1))
             x == list[Len(list)]
         IN  IF x \in Range(rest) THEN rest ELSE Append(rest, x)

\* max() of a non-empty list of numbers
MaxOf(list) == CHOOSE x \in Range(list) : \A y \in Range(list) : y <= x

\* DecisionGraphBuilder.component_dependencies, in the order of its keys
component_dependencies ==
    <<[component |-> "Motor-XYZ", deps |-> {"Bracket-Assembly", "Power-Supply-v2"}],
      [component |-> "PCB-Rev3",
       deps |-> {"Power-Supply-v2", "ESP32-Firmware", "I2C-Interface"}],
      [component |-> "Power-Supply-v2", deps |-> {"Thermal-Design", "Schematic"}],
      [component |-> "ESP32-Firmware", deps |-> {"Bootloader", "Driver-Code"}],
      [component |-> "Enclosure", deps |-> {"Thermal-Design", "Assembly-Process"}],
      [component |-> "BOM", deps |-> {"Vendor-Selection", "DFM"}],
      [component |-> "Requirements", deps |-> {"Schedule"}],
      [component |-> "Test-Fixtures", deps |-> {"QA-Process"}]>>

\* The rows of user_profiles, in the order a SELECT returns them
user_profiles ==
    <<[user_id |-> "alice", user_name |-> "Alice", role |-> "Hardware Lead",
       owned_components |-> {"Motor-XYZ"}],
      [user_id |-> "bob", user_name |-> "Bob", role |-> "Firmware Engineer",
       owned_components |-> {"ESP32-Firmware", "PCB-Rev3", "Power-Supply-v2"}],
      [user_id |-> "carol", user_name |-> "Carol", role |-> "QA Engineer",
       owned_components |-> {"PCB-Rev3"}],
      [user_id |-> "dave", user_name |-> "Dave", role |-> "Test Engineer",
       owned_components |-> {"Test-Fixtures"}]>>

\* users[user_id]
UserProfile(user_id) ==
    CHOOSE u \in Range(user_profiles) : u.user_id = user_id

\* role.endswith('Lead')
EndsWithLead(role) == role \in {"Hardware Lead"}

DecisionTexts ==
    {"Approved: limit 2.0 to 2.5", "Rejected: limit 2.5 to 2.0",
     "Enable watchdog on ESP32"}

\* The words of contradiction_patterns, and 'reject', that are substrings
\* of text.lower()
WordsIn(text) ==
    CASE text = "Approved: limit 2.0 to 2.5" -> {"approve"}
      [] text = "Rejected: limit 2.5 to 2.0" -> {"reject"}
      [] text = "Enable watchdog on ESP32"   -> {"enable"}

\* re.findall of the "X to Y" pattern in text, lower-cased
ChangesIn(text) ==
    CASE text = "Approved: limit 2.0 to 2.5" -> <<[before |-> "2.0", after |-> "2.5"]>>
      [] text = "Rejected: limit 2.5 to 2.0" -> <<[before |-> "2.5", after |-> "2.0"]>>
      [] text = "Enable watchdog on ESP32"   -> <<>>

contradiction_patterns ==
    <<[pos_word |-> "increase", neg_word |-> "decrease"],
      [pos_word |-> "add",      neg_word |-> "remove"],
      [pos_word |-> "enable",   neg_word |-> "disable"],
      [pos_word |-> "approve",  neg_word |-> "reject"],
      [pos_word |-> "accept",   neg_word |-> "decline"]>>

\* The order in which iterating over a set of role names yields them: it
\* follows the hashes of the strings, which the interpreter draws anew
\* for each process
RoleOrders ==
    {<<"Hardware Lead", "Firmware Engineer", "QA Engineer", "Test Engineer">>,
     <<"Test Engineer", "QA Engineer", "Firmware Engineer", "Hardware Lead">>}

DetectorIdle ==
    detector = [decisions |-> <<>>, slack_messages |-> {}, now |-> 0, ticks |-> 0,
                role_order |-> CHOOSE o \in RoleOrders : o[1] = "Hardware Lead",
                last |-> [op |-> "none"]]

\* _get_recent_decisions: WHERE timestamp >= cutoff ORDER BY timestamp DESC.
\* The rows are stored in the order of their timestamps.
GetRecentDecisions(rows, today, days_back) ==
    NewestFirst(SelectSeq(rows, LAMBDA d : d.timestamp >= today - days_back * 24))

\* SELECT DISTINCT user_id FROM slack_messages WHERE thread_id = ...
Participants(messages, thread_id) ==
    {m.user_id : m \in {x \in messages : x.thread_id = thread_id}}

\* component_owners: for each affected component, each user that owns it
ComponentOwners(affected_components) ==
    Flatten([i \in DOMAIN affected_components |->
               LET owners == SelectSeq(user_profiles,
                                LAMBDA u : affected_components[i] \in u.owned_components)
               IN  [j \in DOMAIN owners |->
                      [user_id |-> owners[j].user_id,
                       user_name |-> owners[j].user_name,
                       owned_component |-> affected_components[i],
                       role |-> owners[j].role]]])

\* missing: the component owners that neither took part in the thread nor
\* wrote the decision
MissingOwners(decision, participants) ==
    SelectSeq(ComponentOwners(decision.affected_components),
              LAMBDA o : o.user_id \notin participants
                         /\ o.user_id # decision.author_user_id)

\* _generate_stakeholder_recommendation
GenerateStakeholderRecommendation(missing, components, role_order) ==
    IF Len(missing) = 1
      THEN [template |-> "Contact",
            about |-> <<missing[1].user_name, missing[1].role,
                        missing[1].owned_component>>]
      ELSE [template |-> "Schedule review meeting",
            about |-> SelectSeq(role_order,
                                LAMBDA r : \E i \in DOMAIN missing :
                                              missing[i].role = r)
                      \o components]

\* The severity of a missing-stakeholder gap with every entry of missing
\* counted
MissingSeverity(missing) ==
    IF Len(missing) > 2 \/ \E i \in DOMAIN missing : EndsWithLead(missing[i].role)
      THEN "critical" ELSE "warning"

\* The key of the final sorts: (severity == 'warning', timestamp)
SortKeyLess(a, b) ==
    \/ a.severity # "warning" /\ b.severity = "warning"
    \/ (a.severity = "warning") = (b.severity = "warning") /\ a.timestamp < b.timestamp

RECURSIVE InsertBySeverity(_, _)
\* Put gap x into a list sorted by the key, highest first, before the
\* first element with a lower key
InsertBySeverity(sorted, x) ==
    IF sorted = <<>> THEN <<x>>
    ELSE IF SortKeyLess(Head(sorted), x) THEN <<x>> \o sorted
    ELSE <<Head(sorted)>> \o InsertBySeverity(Tail(sorted), x)

RECURSIVE SortBySeverity(_, _)
\* list.sort(key=(severity == 'warning', timestamp), reverse=True): stable
SortBySeverity(sorted, list) ==
    IF list = <<>> THEN sorted
    ELSE SortBySeverity(InsertBySeverity(sorted, Head(list)), Tail(list))

\* _detect_missing_stakeholders
DetectMissingStakeholders(decision_list, messages, role_order) ==
    LET gapOf(decision) ==
            LET participants == Participants(messages, decision.thread_id)
                missing == MissingOwners(decision, participants)
            IN  IF missing = <<>> THEN <<>>
                ELSE <<[decision_id |-> decision.decision_id,
                        decision_text |-> decision.decision_text,
                        thread_id |-> decision.thread_id,
                        timestamp |-> decision.timestamp,
                        author |-> UserProfile(decision.author_user_id).user_name,
                        affected_components |-> decision.affected_components,
                        missing_stakeholders |-> missing,
                        severity |-> MissingSeverity(missing),
                        participants_count |-> Cardinality(participants),
                        recommendation |->
                            GenerateStakeholderRecommendation(
                                missing, decision.affected_components, role_order)]>>
    IN  SortBySeverity(<<>>,
            Flatten([i \in DOMAIN decision_list |-> gapOf(decision_list[i])]))

\* _format_decision_summary
FormatDecisionSummary(decision) ==
    [decision_id |-> decision.decision_id,
     author |-> UserProfile(decision.author_user_id).user_name,
     timestamp |-> decision.timestamp,
     text |-> decision.decision_text,
     type |-> decision.decision_type]

\* A conflict; a field the code leaves out holds "none" or -1
Conflict(type, component, requirement, decision_list, severity, timestamp, resolution_needed, days) ==
    [type |-> type, component |-> component, requirement |-> requirement,
     conflict_description |-> <<type, component, requirement>>,
     decisions |-> [i \in DOMAIN decision_list |-> FormatDecisionSummary(decision_list[i])],
     severity |-> severity, timestamp |-> timestamp,
     resolution_needed |-> resolution_needed,
     time_between_decisions |-> days]

\* _detect_before_after_conflicts, with conflict['component'] = component
DetectBeforeAfterConflicts(component, decision_list) ==
    LET changes == Flatten([i \in DOMAIN decision_list |->
                      [j \in DOMAIN ChangesIn(decision_list[i].decision_text) |->
                          [decision |-> decision_list[i],
                           before |-> ChangesIn(decision_list[i].decision_text)[j].before,
                           after |-> ChangesIn(decision_list[i].decision_text)[j].after]]])
        n == Len(changes)
        pairs == [k \in 1..(n * n) |-> <<((k - 1) \div n) + 1, ((k - 1) % n) + 1>>]
        circular == SelectSeq(pairs, LAMBDA p :
                        /\ p[1] < p[2]
                        /\ changes[p[1]].before = changes[p[2]].after
                        /\ changes[p[1]].after = changes[p[2]].before)
    IN  [k \in DOMAIN circular |->
           Conflict("circular_change", component, "none",
                    <<changes[circular[k][1]].decision, changes[circular[k][2]].decision>>,
                    "critical",
                    MaxOf(<<changes[circular[k][1]].decision.timestamp,
                            changes[circular[k][2]].decision.timestamp>>),
                    TRUE, -1)]

\* _analyze_component_conflicts
AnalyzeComponentConflicts(component, decision_list) ==
    LET timestamps == [i \in DOMAIN decision_list |-> decision_list[i].timestamp]
        has_approval == \E i \in DOMAIN decision_list :
                           decision_list[i].decision_type = "approval"
        has_rejection == \E i \in DOMAIN decision_list :
                            "reject" \in WordsIn(decision_list[i].decision_text)
        recent_decisions == SelectSeq(decision_list, LAMBDA d :
                                         d.timestamp > MaxOf(timestamps) - 24)
    IN  (IF has_approval /\ has_rejection
           THEN <<Conflict("component_conflict", component, "none", decision_list,
                           "critical", MaxOf(timestamps), TRUE, -1)>>
           ELSE <<>>)
        \o DetectBeforeAfterConflicts(component, decision_list)
        \o (IF /\ Cardinality({decision_list[i].decision_text : i \in DOMAIN decision_list})
                     < Len(decision_list)
               /\ Len(recent_decisions) > 1
              THEN <<Conflict("duplicate_decision", component, "none",
                              recent_decisions, "warning", MaxOf(timestamps),
                              FALSE, -1)>>
              ELSE <<>>)

\* sorted(decisions, key=timestamp): a stable sort, of rows that are newest
\* first with no two timestamps equal
OldestFirst(decision_list) ==
    [i \in DOMAIN decision_list |-> decision_list[Len(decision_list) + 1 - i]]

\* _analyze_requirement_conflicts
AnalyzeRequirementConflicts(requirement, decision_list) ==
    LET sorted_decisions == OldestFirst(decision_list)
        contradicts(i, p) ==
            LET current == WordsIn(sorted_decisions[i].decision_text)
                previous == WordsIn(sorted_decisions[i - 1].decision_text)
                w == contradiction_patterns[p]
            IN  \/ w.pos_word \in current /\ w.neg_word \in previous
                \/ w.neg_word \in current /\ w.pos_word \in previous
        n == Len(contradiction_patterns)
        steps == [k \in 1..((Len(decision_list) - 1) * n) |->
                    <<((k - 1) \div n) + 2, ((k - 1) % n) + 1>>]
        found == SelectSeq(steps, LAMBDA s : contradicts(s[1], s[2]))
    IN  [k \in DOMAIN found |->
           LET current == sorted_decisions[found[k][1]]
               previous == sorted_decisions[found[k][1] - 1]
               days == (current.timestamp - previous.timestamp) \div 24
           IN  Conflict("requirement_conflict", "none", requirement,
                        <<previous, current>>,
                        IF days < 1 THEN "critical" ELSE "warning",
                        current.timestamp, TRUE, days)]

\* The decisions grouped under key, in the order of the list
GroupOf(decision_list, field, key) ==
    SelectSeq(decision_list, LAMBDA d : key \in Range(d[field]))

\* The keys of component_decisions or requirement_decisions, in the order
\* in which the loop over the decisions adds them
GroupKeys(decision_list, field) ==
    FirstSeen(Flatten([i \in DOMAIN decision_list |-> decision_list[i][field]]))

\* _detect_conflicts
DetectConflicts(decision_list) ==
    LET components == GroupKeys(decision_list, "affected_components")
        reqs == GroupKeys(decision_list, "referenced_reqs")
        conflictsOf(keys, field, analyze(_, _)) ==
            Flatten([i \in DOMAIN keys |->
                       LET group == GroupOf(decision_list, field, keys[i])
                       IN  IF Len(group) > 1 THEN analyze(keys[i], group) ELSE <<>>])
    IN  SortBySeverity(<<>>,
            conflictsOf(components, "affected_components", AnalyzeComponentConflicts)
            \o conflictsOf(reqs, "referenced_reqs", AnalyzeRequirementConflicts))

\* dependents: the components whose dependencies hold component
Dependents(component) ==
    LET holding == SelectSeq(component_dependencies, LAMBDA e : component \in e.deps)
    IN  [i \in DOMAIN holding |-> holding[i].component]

\* _detect_broken_dependencies
DetectBrokenDependencies(decision_list, messages) ==
    LET brokenOf(decision, component) ==
            LET dependents == Dependents(component)
                participants == Participants(messages, decision.thread_id)
                missing_dependent_owners ==
                    Flatten([u \in DOMAIN user_profiles |->
                       LET owned == SelectSeq(dependents, LAMBDA dep :
                                       /\ dep \in user_profiles[u].owned_components
                                       /\ user_profiles[u].user_id \notin participants)
                       IN  [j \in DOMAIN owned |->
                              [user_id |-> user_profiles[u].user_id,
                               user_name |-> user_profiles[u].user_name,
                               dependent_component |-> owned[j]]]])
            IN  IF dependents = <<>> \/ missing_dependent_owners = <<>> THEN <<>>
                ELSE <<[decision_id |-> decision.decision_id,
                        decision_text |-> decision.decision_text,
                        affected_component |-> component,
                        dependent_components |-> dependents,
                        missing_owners |-> missing_dependent_owners,
                        timestamp |-> decision.timestamp,
                        severity |-> "warning"]>>
    IN  Flatten([i \in DOMAIN decision_list |->
            Flatten([j \in DOMAIN decision_list[i].affected_components |->
                brokenOf(decision_list[i], decision_list[i].affected_components[j])])])

\* detect_all_gaps(days_back)
DetectAllGaps(rows, messages, today, days_back, role_order) ==
    LET decision_list == GetRecentDecisions(rows, today, days_back)
        call == [op |-> "detect_all_gaps", days_back |-> days_back,
                 cutoff |-> today - days_back * 24, decisions |-> decision_list]
    IN  IF decision_list = <<>>
          THEN call @@ [missing_stakeholders |-> <<>>, conflicts |-> <<>>,
                        broken_dependencies |-> <<>>]
          ELSE call @@ [missing_stakeholders |->
                            DetectMissingStakeholders(decision_list, messages, role_order),
                        conflicts |-> DetectConflicts(decision_list),
                        broken_dependencies |->
                            DetectBrokenDependencies(decision_list, messages)]

-----------------------------------------------------------------------------
(* RealtimeEntityExtractor with its LLM clients.  A response of the LLM    *)
(* API is known by its kind; a JSON object by its keys and their values.   *)

NoEntitiesFound == Entities({}, {}, {}, {}, 60)

\* The client that __init__ sets up
ClientOf(anthropic_ready, openai_ready) ==
    IF anthropic_ready THEN "anthropic"
    ELSE IF openai_ready THEN "openai"
    ELSE "none"

ExtractorIdle == extractor = [client |-> "none", last |-> [op |-> "none"]]

\* A response that holds no JSON object
NoObject(kind) == [kind |-> kind, keys |-> {}, data |-> NoEntitiesFound]

\* A response that holds the JSON object with the given keys of data
JsonObject(kind, keys, data) == [kind |-> kind, keys |-> keys, data |-> data]

\* extracted_data.get(key, default)
Get(response, key, default) ==
    IF key \in response.keys THEN response.data[key] ELSE default

\* None, or the ExtractedEntities built from a JSON object
NoneParsed == [parsed |-> FALSE, entities |-> NoEntitiesFound]

FromJson(response) ==
    [parsed |-> TRUE,
     entities |-> Entities(Get(response, "reqs", {}),
                           Get(response, "components", {}),
                           Get(response, "users_mentioned", {}),
                           Get(response, "topics", {}),
                           Get(response, "confidence", 80))]

\* _extract_with_haiku: the API call, then the parse of its response
ExtractWithHaiku(client, response) ==
    IF client # "anthropic" THEN NoneParsed
    ELSE IF response.kind \in {"json_object", "fenced_json_object"}
      THEN FromJson(response)
    ELSE NoneParsed

\* _extract_with_openai: the API call, then the parse of its response
ExtractWithOpenAI(client, response) ==
    IF client # "openai" THEN NoneParsed
    ELSE IF response.kind = "json_object" THEN FromJson(response)
    ELSE NoneParsed

ExtractEntitiesFastWith_NoFallback(client, words, response) ==
    LET entities == IF client = "anthropic" THEN ExtractWithHaiku(client, response)
                    ELSE IF client = "openai" THEN ExtractWithOpenAI(client, response)
                    ELSE NoneParsed
    IN  IF entities.parsed
          THEN [outcome |-> "returned", entities |-> entities.entities]
          ELSE [outcome |-> "raised", entities |-> NoEntitiesFound]

\* extract_entities_fast with the response that the LLM API gives
ExtractEntitiesFastWith(client, words, response) ==
    LET entities == IF client = "anthropic" THEN ExtractWithHaiku(client, response)
                    ELSE IF client = "openai" THEN ExtractWithOpenAI(client, response)
                    ELSE NoneParsed
    IN  IF entities.parsed
          THEN [outcome |-> "returned", entities |-> entities.entities]
          ELSE [outcome |-> "returned", entities |-> ExtractWithRegex(words)]

-----------------------------------------------------------------------------
(* DatabaseManager: the gaps a user is shown, and their priorities.  The   *)
(* users are the rows of user_profiles; decision_details holds at most one *)
(* 'user_priority' row per decision.                                       *)

\* The rows of decisions that the gap queries read, newest first
gap_decisions ==
    <<[decision_id |-> 2, author_user_id |-> "bob",
       affected_components |-> <<"Motor-XYZ", "PCB-Rev3">>],
      [decision_id |-> 1, author_user_id |-> "alice",
       affected_components |-> <<"PCB-Rev3">>]>>

NoPriority == [priority |-> 0, updated_by |-> "nobody"]

DbmIdle ==
    dbm = [decision_details |-> [d \in {1, 2} |-> NoPriority],
           last |-> [op |-> "none"]]

\* get_gaps(user_id)
GetGaps(decision_details, user_id) ==
    LET user == UserProfile(user_id)
        user_decisions ==
            SelectSeq(gap_decisions, LAMBDA d :
                Range(d.affected_components) \cap user.owned_components # {})
        gapOf(decision) ==
            LET component_overlap ==
                    Cardinality(Range(decision.affected_components)
                                   \cap user.owned_components)
                is_author == decision.author_user_id = user_id
                stored == decision_details[decision.decision_id]
                priority ==
                    IF stored # NoPriority THEN stored.priority
                    ELSE IF is_author THEN 3 + component_overlap
                    ELSE IF component_overlap >= 2 THEN 1
                    ELSE IF component_overlap = 1 THEN 2
                    ELSE 5
            IN  [type |-> "missing_stakeholder",
                 severity |-> IF priority <= 2 THEN "critical" ELSE "warning",
                 decision_id |-> decision.decision_id,
                 priority |-> priority,
                 missing_person |-> user_id]
        others == SelectSeq(user_decisions, LAMBDA d : d.author_user_id # user_id)
    IN  [i \in DOMAIN others |-> gapOf(others[i])]

\* update_gap_priority(decision_id, priority, user_id); `fail`: the
\* statement raises
UpdateGapPriority(decision_details, decision_id, priority, user_id, fail) ==
    IF fail THEN [decision_details |-> decision_details, ok |-> FALSE]
    ELSE [decision_details |->
             [decision_details EXCEPT ![decision_id] =
                 [priority |-> priority, updated_by |-> user_id]],
          ok |-> TRUE]

-----------------------------------------------------------------------------
(* Values before any call                                                  *)

Thresholds == {"high", "medium", "low", "other"}

UnitIdle ==
    RunsIdle /\ SearchIdle /\ DetectorIdle /\ ExtractorIdle /\ DbmIdle

MatcherIdle ==
    /\ mNew = NoEntitiesFound
    /\ mBuf = <<>>
    /\ mOverlap = [tier |-> "none", score |-> Zero]
    /\ mInject = [t \in Thresholds |-> [inject |-> FALSE, tier |-> "none",
                                        score |-> Zero]]

BufferIdle ==
    /\ now = 0
    /\ connected = TRUE
    /\ zset = [c \in Channels |-> <<>>]
    /\ expiry = [c \in Channels |-> NoExpiry]
    /\ nAdds = 0
    /\ nTicks = 0
    /\ lastOp = [op |-> "none"]

\* TwoTierOrchestrator.__init__
InitialStats ==
    [messages_processed |-> 0, context_injections |-> 0, gaps_created |-> 0,
     redis_failures |-> 0, sql_failures |-> 0]

OrchIdle ==
    /\ calls = <<>>
    /\ stats = InitialStats
    /\ dbUp = TRUE
    /\ decisions = {}
    /\ gaps = {}
    /\ faults = 0

-----------------------------------------------------------------------------
(* Matcher calls: the new message's entities are fixed by Init, the list   *)
(* of buffered entities grows one message at a time and both functions     *)
(* are applied to every list.                                              *)

MaxBufLen == 2

ReqSets   == {{}, {"REQ-245"}, {"REQ-245", "REQ-246"}}
CompSets  == {{}, {"motor"}, {"thermal"}, {"motor", "thermal"}, {"actuator"}}
TopicSets == {{}, {"mechanical_specs"}, {"mechanical_specs", "electrical_specs"}}

MatcherEntities ==
    {Entities(r, c, {}, t, 60) : r \in ReqSets, c \in CompSets, t \in TopicSets}

MatcherResults(b, buf) ==
    /\ mOverlap = CalculateOverlapScore(b, buf)
    /\ mInject = [t \in Thresholds |-> ShouldInjectContext(b, buf, t)]

MatcherInit ==
    /\ mNew \in MatcherEntities
    /\ mBuf = <<>>
    /\ MatcherResults(mNew, mBuf)
    /\ BufferIdle
    /\ OrchIdle
    /\ UnitIdle

MatcherPush ==
    /\ Len(mBuf) < MaxBufLen
    /\ \E e \in MatcherEntities :
          /\ mBuf' = Append(mBuf, e)
          /\ mNew' = mNew
          /\ mOverlap' = CalculateOverlapScore(mNew, mBuf')
          /\ mInject' = [t \in Thresholds |-> ShouldInjectContext(mNew, mBuf', t)]
          /\ UNCHANGED <<unitVars, bufferVars, driverVars, orchVars>>

MatcherNext == MatcherPush

SpecMatcher == MatcherInit /\ [][MatcherNext]_vars

-----------------------------------------------------------------------------
(* Buffer calls: add_message and get_recent_context called directly on one *)
(* channel, one call at a time, while the clock advances.                  *)

MaxAdds == 32

MaxTicks == 2

ClockSteps == {3601}

BufferChannel == "hardware-team"

\* (max_messages, max_age_minutes) of the queries: the defaults, and a
\* caller asking for more of both.
QueryArgs == {<<30, 120>>, <<31, 180>>}

PlainMessage(id, channel_id, t) ==
    LiveContextMessage(id, "alice", "text", NoEntitiesFound, NoDecision, t,
                       channel_id)

BufInit ==
    /\ MatcherIdle
    /\ now = 0
    /\ connected \in BOOLEAN
    /\ zset = [c \in Channels |-> <<>>]
    /\ expiry = [c \in Channels |-> NoExpiry]
    /\ nAdds = 0
    /\ nTicks = 0
    /\ lastOp = [op |-> "none"]
    /\ OrchIdle
    /\ UnitIdle

BufAddWith(failures) ==
    /\ nAdds < MaxAdds
    /\ \E fail \in failures :
          LET r == AddMessage(zset, expiry, now, connected, BufferChannel,
                              PlainMessage(nAdds + 1, BufferChannel, now), fail)
          IN  /\ zset' = r.zset
              /\ expiry' = r.expiry
              /\ nAdds' = IF r.zset # zset THEN nAdds + 1 ELSE nAdds
              /\ lastOp' = [op |-> "add", ok |-> r.ok]
    /\ UNCHANGED <<unitVars, matcherVars, orchVars, now, connected, nTicks>>

\* add_message; any one of its Redis commands may raise
BufAdd == BufAddWith(AddFailures)

\* add_message against a store that never fails
BufAddOk == BufAddWith({"none"})

BufQuery ==
    /\ \E q \in QueryArgs :
          lastOp' = [op |-> "query", max_messages |-> q[1],
                     max_age_minutes |-> q[2],
                     result |-> GetRecentContext(zset, now, connected,
                                                 BufferChannel, q[1], q[2], FALSE)]
    /\ UNCHANGED <<unitVars, matcherVars, orchVars, bufferVars, nAdds, nTicks>>

BufTick ==
    /\ nTicks < MaxTicks
    /\ \E d \in ClockSteps :
          /\ now' = now + d
          /\ zset' = Purge(zset, expiry, now + d)
          /\ expiry' = PurgeExpiry(expiry, now + d)
    /\ nTicks' = nTicks + 1
    /\ lastOp' = [op |-> "none"]
    /\ UNCHANGED <<unitVars, matcherVars, orchVars, connected, nAdds>>

BufNext == BufAdd \/ BufQuery \/ BufTick

SpecBuffer == BufInit /\ [][BufNext]_vars

BufNextNoFault == BufAddOk \/ BufQuery \/ BufTick

\* The same calls against a Redis server that is always available.
BufInitNoFault == BufInit /\ connected = TRUE

SpecBufferNoFault == BufInitNoFault /\ [][BufNextNoFault]_vars

-----------------------------------------------------------------------------
(* Buffer calls with caller-supplied timestamps: add_message stores the    *)
(* message's own timestamp field in the member and scores the member with  *)
(* time.time().  The clock advances by one second with every add; a late   *)
(* message carries a timestamp LateBy seconds before the time of its add.  *)

MaxLate == 1

LateBy == 40

\* timestamp field of a stored entry
StampOf(x) == FromRedisJson(x.member).timestamp

\* The late messages the buffer holds
LateEntries == {x \in Range(zset[BufferChannel]) : StampOf(x) < x.score}

\* add_message(channel_id, message) with message.timestamp given by the caller
BufAddStamped ==
    /\ nAdds < MaxAdds
    /\ \E late \in BOOLEAN :
          LET ts == IF late THEN now - LateBy ELSE now
              r  == AddMessage(zset, expiry, now, connected, BufferChannel,
                               PlainMessage(nAdds + 1, BufferChannel, ts), "none")
          IN  /\ late => Cardinality(LateEntries) < MaxLate
              /\ zset' = Purge(r.zset, r.expiry, now + 1)
              /\ expiry' = PurgeExpiry(r.expiry, now + 1)
              /\ now' = now + 1
              /\ nAdds' = nAdds + 1
              /\ lastOp' = [op |-> "add", ok |-> r.ok]
    /\ UNCHANGED <<unitVars, matcherVars, orchVars, connected, nTicks>>

BufNextStamped == BufAddStamped \/ BufQuery

SpecBufferStamped == BufInitNoFault /\ [][BufNextStamped]_vars

-----------------------------------------------------------------------------
(* Message ingest: concurrent process_incoming_message calls.  A call runs *)
(* from one await to the next without interruption.  Its awaits are merged *)
(* into three actions where the code between them touches nothing another  *)
(* call reads: extraction (touches no shared state) and the decision       *)
(* INSERT (the table is read by no call) go with the buffer write; the gap *)
(* INSERT goes with the response and the return.  An action suffers at     *)
(* most one failure.  The clock advances by one second with every buffer   *)
(* write.                                                                  *)

MaxCalls == 2

MaxFaults == 1

\* The messages that may arrive.
Inbox ==
    {[user_id |-> "alice", channel_id |-> "hardware-team",
      words |-> {"updated", "REQ-245", "motor", "torque"}],
     [user_id |-> "bob", channel_id |-> "hardware-team",
      words |-> {"current", "motor", "power", "requirements", "specs"}],
     [user_id |-> "bob", channel_id |-> "hardware-team",
      words |-> {"motor", "pcb", "power"}]}

\* What a parsed LLM response may hold for a text: the entities of the
\* text, with the confidence the LLM reports.
LLMAnswers(words) ==
    {[ExtractWithRegex(words) EXCEPT !.confidence = conf] : conf \in {80, 90}}

\* extract_entities_fast: a parsed LLM response, or the regex fallback
ExtractEntitiesFast(words) == LLMAnswers(words) \cup {ExtractWithRegex(words)}

NewCall(id, msg, t) ==
    [pc |-> "extract", message_id |-> id, channel_id |-> msg.channel_id,
     user_id |-> msg.user_id, text |-> msg.words, timestamp |-> t,
     entities |-> NoEntitiesFound, worthy |-> FALSE, decision_id |-> NoDecision,
     add_called |-> FALSE, redis_success |-> FALSE,
     matching_contexts |-> <<>>, confidence |-> "none", interrupted |-> FALSE,
     result |-> NoResult]

CanFail == faults < MaxFaults

OrchInit ==
    /\ MatcherIdle
    /\ now = 0
    /\ connected \in BOOLEAN
    /\ zset = [c \in Channels |-> <<>>]
    /\ expiry = [c \in Channels |-> NoExpiry]
    /\ nAdds = 0
    /\ nTicks = 0
    /\ lastOp = [op |-> "none"]
    /\ calls = <<>>
    /\ stats = InitialStats
    /\ dbUp \in BOOLEAN
    /\ decisions = {}
    /\ gaps = {}
    /\ faults = 0
    /\ UnitIdle

\* process_incoming_message is called: start_time, timestamp
Arrive ==
    /\ Len(calls) < MaxCalls
    /\ \E msg \in Inbox : calls' = Append(calls, NewCall(Len(calls) + 1, msg, now))
    /\ UNCHANGED <<unitVars, matcherVars, bufferVars, driverVars, stats, dbUp, decisions,
                   gaps, faults>>

\* Step 1 raises
ExtractRaises(i) ==
    /\ calls[i].pc = "extract"
    /\ CanFail
    /\ faults' = faults + 1
    /\ calls' = [calls EXCEPT ![i] = OuterExcept([@ EXCEPT !.interrupted = TRUE])]
    /\ UNCHANGED <<unitVars, matcherVars, bufferVars, driverVars, stats, dbUp, decisions, gaps>>

IngestFaults == {"none", "insert"} \cup AddFailures

\* Steps 1 to 3: extract_entities_fast, _is_decision_worthy,
\* _create_decision_record, the LiveContextMessage, add_message, the
\* redis_failures counter
Ingest(i) ==
    /\ calls[i].pc = "extract"
    /\ \E entities \in ExtractEntitiesFast(calls[i].text), fault \in IngestFaults :
          LET c      == calls[i]
              worthy == IsDecisionWorthy(entities, c.text)
              d      == IF worthy
                          THEN CreateDecisionRecord(decisions, dbUp, c, entities,
                                                    fault = "insert")
                          ELSE [decisions |-> decisions, id |-> NoDecision,
                                failed |-> FALSE]
              context_message ==
                 LiveContextMessage(c.message_id, c.user_id, c.text, entities,
                                    d.id, c.timestamp, c.channel_id)
              r == AddMessage(zset, expiry, now, connected, c.channel_id,
                              context_message, fault)
          IN  /\ fault # "none" => CanFail
              /\ fault = "insert" => (worthy /\ dbUp)
              /\ fault \in AddFailures \ {"none"} => connected
              /\ faults' = IF fault # "none" THEN faults + 1 ELSE faults
              /\ decisions' = d.decisions
              /\ zset' = Purge(r.zset, r.expiry, now + 1)
              /\ expiry' = PurgeExpiry(r.expiry, now + 1)
              /\ now' = now + 1
              /\ stats' = [stats EXCEPT
                             !.sql_failures = IF d.failed THEN @ + 1 ELSE @,
                             !.redis_failures = IF r.ok THEN @ ELSE @ + 1]
              /\ calls' = [calls EXCEPT ![i] =
                             [@ EXCEPT !.pc = "check", !.entities = entities,
                                       !.worthy = worthy, !.decision_id = d.id,
                                       !.add_called = TRUE,
                                       !.redis_success = r.ok]]
    /\ UNCHANGED <<unitVars, matcherVars, connected, driverVars, dbUp, gaps>>

CheckFaults == {"none", "zrevrange", "check", "finish"}

\* Step 4: _check_context_injection up to the matching contexts, or to the
\* end of the call when nothing is injected
Check(i) ==
    /\ calls[i].pc = "check"
    /\ \E fault \in CheckFaults :
          LET c   == calls[i]
              context_messages ==
                 GetRecentContext(zset, now, connected, c.channel_id, 30, 120,
                                  fault = "zrevrange")
              inj == ShouldInjectContext(c.entities, EntitiesOf(context_messages),
                                         "medium")
              injects == context_messages # <<>> /\ inj.inject
              f   == IF fault = "check"
                       THEN Finish([c EXCEPT !.interrupted = TRUE], stats,
                                   InnerExcept, FALSE)
                       ELSE Finish(c, stats, NotInjected, fault = "finish")
          IN  /\ fault # "none" => CanFail
              /\ fault = "zrevrange" => connected
              /\ fault = "finish" => ~injects
              /\ faults' = IF fault # "none" THEN faults + 1 ELSE faults
              /\ IF fault = "check" \/ ~injects
                   THEN /\ calls' = [calls EXCEPT ![i] = f.call]
                        /\ stats' = f.stats
                   ELSE /\ calls' = [calls EXCEPT ![i] =
                                  [@ EXCEPT !.pc = "gap",
                                            !.matching_contexts =
                                               MatchingContexts(c.entities,
                                                                context_messages),
                                            !.confidence = inj.tier]]
                        /\ stats' = stats
    /\ UNCHANGED <<unitVars, matcherVars, bufferVars, driverVars, dbUp, decisions, gaps>>

RespondFaults == {"none", "insert", "respond", "finish"}

\* The rest of _check_context_injection (_create_gap_if_needed,
\* generate_response) and of the call
Respond(i) ==
    /\ calls[i].pc = "gap"
    /\ \E fault \in RespondFaults :
          LET c0  == calls[i]
              g   == IF c0.matching_contexts # <<>>
                       THEN CreateGapIfNeeded(gaps, dbUp, c0.matching_contexts,
                                              c0.user_id, fault = "insert")
                       ELSE [gaps |-> gaps, created |-> FALSE]
              c   == [c0 EXCEPT !.interrupted = (fault = "respond")]
              ctx == IF fault = "respond" THEN InnerExcept
                     ELSE Injected(g.created, c0.confidence, c0.matching_contexts)
              f   == Finish(c, stats, ctx, fault = "finish")
          IN  /\ fault # "none" => CanFail
              /\ fault = "insert" => (dbUp /\ c0.matching_contexts # <<>>)
              /\ faults' = IF fault # "none" THEN faults + 1 ELSE faults
              /\ gaps' = g.gaps
              /\ calls' = [calls EXCEPT ![i] = f.call]
              /\ stats' = f.stats
    /\ UNCHANGED <<unitVars, matcherVars, bufferVars, driverVars, dbUp, decisions>>

ExtractFailure == \E i \in DOMAIN calls : ExtractRaises(i)
Ingestion      == \E i \in DOMAIN calls : Ingest(i)
ContextCheck   == \E i \in DOMAIN calls : Check(i)
Response       == \E i \in DOMAIN calls : Respond(i)

Next ==
    \/ Arrive
    \/ ExtractFailure
    \/ Ingestion
    \/ ContextCheck
    \/ Response

Spec == OrchInit /\ [][Next]_vars

-----------------------------------------------------------------------------
(* The orchestrator handling one message after the other: a call starts    *)
(* when the calls before it have returned.  The messages are about topics  *)
(* only (no requirement ID, no component).                                 *)

MaxSerialCalls == 3

SerialInbox ==
    {[user_id |-> "alice", channel_id |-> "hardware-team", words |-> {"torque"}],
     [user_id |-> "alice", channel_id |-> "hardware-team", words |-> {"i2c"}],
     [user_id |-> "bob", channel_id |-> "hardware-team",
      words |-> {"i2c", "torque"}]}

\* process_incoming_message is called after the earlier calls returned
SerialArrive ==
    /\ Len(calls) < MaxSerialCalls
    /\ \A i \in DOMAIN calls : calls[i].pc = "done"
    /\ \E msg \in SerialInbox :
          calls' = Append(calls, NewCall(Len(calls) + 1, msg, now))
    /\ UNCHANGED <<unitVars, matcherVars, bufferVars, driverVars, stats, dbUp, decisions,
                   gaps, faults>>

SerialNext ==
    \/ SerialArrive
    \/ ExtractFailure
    \/ Ingestion
    \/ ContextCheck
    \/ Response

SpecSerial == OrchInit /\ [][SerialNext]_vars

-----------------------------------------------------------------------------
(* Embedding batch runs: decisions are created as the orchestrator creates *)
(* them; several batch_process loops and resets of failed rows run         *)
(* concurrently.  A transaction takes effect when it commits.              *)

MaxDecisions == 2

\* batch_size of the runs
BatchSizes == {1, 2}

EmbInit ==
    /\ MatcherIdle
    /\ BufferIdle
    /\ OrchIdle
    /\ UnitIdle

\* _create_decision_record for a decision-worthy message; the messages are
\* one second apart
EmbCreate ==
    /\ Cardinality(decisions) < MaxDecisions
    /\ \E msg \in Inbox :
          LET c        == NewCall(Cardinality(decisions) + 1, msg,
                                  now + Cardinality(decisions))
              entities == ExtractWithRegex(msg.words)
          IN  /\ IsDecisionWorthy(entities, msg.words)
              /\ decisions' = CreateDecisionRecord(decisions, dbUp, c, entities,
                                                   FALSE).decisions
    /\ UNCHANGED <<matcherVars, bufferVars, driverVars, unitVars, calls, stats,
                   dbUp, gaps, faults>>

\* batch_process: get_pending_decisions returns a non-empty batch
RunFetch(r) ==
    /\ runs[r].pc = "idle"
    /\ \E batch_size \in BatchSizes :
          LET pending == GetPendingDecisions(decisions, batch_size)
          IN  /\ pending # {}
              /\ runs' = [runs EXCEPT ![r] = [pc |-> "fetched", batch |-> pending]]
    /\ UNCHANGED <<matcherVars, bufferVars, driverVars, orchVars, search, detector, extractor, dbm>>

\* batch_process: generate_embeddings, then update_embeddings commits; the
\* UPDATE of any row of the batch may have raised
RunCommit(r) ==
    /\ runs[r].pc = "fetched"
    /\ \E raised \in SUBSET runs[r].batch :
          decisions' = UpdateEmbeddings(decisions, runs[r].batch, raised)
    /\ runs' = [runs EXCEPT ![r] = IdleRun]
    /\ UNCHANGED <<matcherVars, bufferVars, driverVars, calls, stats, dbUp, gaps,
                   faults, search, detector, extractor, dbm>>

\* update_embeddings raises out of its transaction (the error left the
\* transaction aborted, so the statement that marks the row failed raises
\* too): everything is rolled back and batch_process ends
RunRollback(r) ==
    /\ runs[r].pc = "fetched"
    /\ runs' = [runs EXCEPT ![r] = IdleRun]
    /\ UNCHANGED <<matcherVars, bufferVars, driverVars, orchVars, search, detector, extractor, dbm>>

EmbFetch    == \E r \in Runs : RunFetch(r)
EmbCommit   == \E r \in Runs : RunCommit(r)
EmbRollback == \E r \in Runs : RunRollback(r)

\* cleanup_failed_embeddings
EmbReset ==
    /\ \E d \in decisions : d.embedding_status = "failed"
    /\ decisions' = CleanupFailedEmbeddings(decisions)
    /\ UNCHANGED <<matcherVars, bufferVars, driverVars, unitVars, calls, stats,
                   dbUp, gaps, faults>>

EmbNext == EmbCreate \/ EmbFetch \/ EmbCommit \/ EmbRollback \/ EmbReset

SpecEmbedding == EmbInit /\ [][EmbNext]_vars

-----------------------------------------------------------------------------
(* Searches: rows are stored one per day, and hybrid_search is called on   *)
(* the day of the newest row.                                              *)

MaxRows == 3

Queries == {"", "  ", "motor torque"}

Limits == {0, 1, 2}

TimeFilters == {1, 30}

\* embedding_status, embedding and dot of a stored row: a row is embedded
\* together with its vector
EmbeddingStates ==
    {[embedding_status |-> "pending",  embedding |-> "none",   dot |-> 0],
     [embedding_status |-> "embedded", embedding |-> "vector", dot |-> 10],
     [embedding_status |-> "embedded", embedding |-> "vector", dot |-> 90]}

SearchInit ==
    /\ MatcherIdle
    /\ BufferIdle
    /\ OrchIdle
    /\ UnitIdle

\* A row of decisions is stored
SearchInsert ==
    /\ Len(search.rows) < MaxRows
    /\ \E comps \in {{"motor"}, {"pcb"}}, e \in EmbeddingStates :
          search' = [rows |-> Append(search.rows,
                                     [decision_id |-> Len(search.rows) + 1,
                                      timestamp |-> Len(search.rows) + 1,
                                      affected_components |-> comps,
                                      similarity_score |-> 0] @@ e),
                     last |-> [op |-> "none"]]
    /\ UNCHANGED <<matcherVars, bufferVars, driverVars, orchVars, runs, detector, extractor, dbm>>

\* hybrid_search(user_id, query_text, user_components, time_filter_days, limit)
SearchCall ==
    /\ \E query_text \in Queries, user_components \in {{}, {"motor"}},
          time_filter_days \in TimeFilters, limit \in Limits,
          encoder_up \in BOOLEAN :
          search' = [search EXCEPT !.last =
                        HybridSearch(search.rows, Len(search.rows), query_text,
                                     user_components, time_filter_days, limit,
                                     encoder_up)]
    /\ UNCHANGED <<matcherVars, bufferVars, driverVars, orchVars, runs, detector, extractor, dbm>>

SearchNext == SearchInsert \/ SearchCall

SpecSearch == SearchInit /\ [][SearchNext]_vars

-----------------------------------------------------------------------------
(* The gap detector on its own: decisions and thread messages are stored,  *)
(* time passes, the detector runs, and the interpreter is started anew.    *)

MaxGapDecisions == 2

MaxThreadMessages == 2

MaxGapTicks == 1

Threads == {"thread-1", "thread-2"}

DecisionKind(author_user_id, thread_id, affected_components, referenced_reqs, decision_type, decision_text) ==
    [author_user_id |-> author_user_id, thread_id |-> thread_id,
     affected_components |-> affected_components,
     referenced_reqs |-> referenced_reqs,
     decision_type |-> decision_type, decision_text |-> decision_text]

\* The decisions that are stored
DecisionKinds ==
    {DecisionKind("carol", "thread-1",
                  <<"PCB-Rev3", "Power-Supply-v2", "ESP32-Firmware">>,
                  <<"REQ-245">>, "approval", "Approved: limit 2.0 to 2.5"),
     DecisionKind("bob", "thread-1", <<"Motor-XYZ">>, <<"REQ-245">>,
                  "design_change", "Rejected: limit 2.5 to 2.0"),
     DecisionKind("alice", "thread-2", <<"PCB-Rev3">>, <<>>,
                  "design_change", "Enable watchdog on ESP32"),
     DecisionKind("alice", "thread-2", <<"PCB-Rev3", "Test-Fixtures">>,
                  <<"REQ-246">>, "design_change", "Rejected: limit 2.5 to 2.0"),
     DecisionKind("alice", "thread-1", <<"Motor-XYZ">>, <<>>,
                  "approval", "Approved: limit 2.0 to 2.5")}

\* Hours between two decisions
Advances == {1, 48}

DaysBack == {1, 30}

GapInit ==
    /\ MatcherIdle
    /\ BufferIdle
    /\ OrchIdle
    /\ UnitIdle

\* A decision is stored
GapAddDecision ==
    /\ Len(detector.decisions) < MaxGapDecisions
    /\ \E kind \in DecisionKinds, advance \in Advances :
          detector' = [detector EXCEPT
                         !.now = @ + advance,
                         !.decisions =
                             Append(@, kind @@
                                       [decision_id |-> Len(detector.decisions) + 1,
                                        timestamp |-> detector.now + advance]),
                         !.last = [op |-> "none"]]
    /\ UNCHANGED <<matcherVars, bufferVars, driverVars, orchVars, runs, search, extractor, dbm>>

\* A user writes in a thread
GapAddMessage ==
    /\ Cardinality(detector.slack_messages) < MaxThreadMessages
    /\ \E thread_id \in Threads, user_id \in {"alice", "bob"} :
          /\ [thread_id |-> thread_id, user_id |-> user_id] \notin detector.slack_messages
          /\ detector' = [detector EXCEPT
                            !.slack_messages =
                                @ \cup {[thread_id |-> thread_id, user_id |-> user_id]},
                            !.last = [op |-> "none"]]
    /\ UNCHANGED <<matcherVars, bufferVars, driverVars, orchVars, runs, search, extractor, dbm>>

\* A day passes
GapTick ==
    /\ detector.ticks < MaxGapTicks
    /\ detector' = [detector EXCEPT !.now = @ + 24, !.ticks = @ + 1]
    /\ UNCHANGED <<matcherVars, bufferVars, driverVars, orchVars, runs, search, extractor, dbm>>

\* The program is started anew: a new process with its own string hashes
GapRestart ==
    /\ \E role_order \in RoleOrders \ {detector.role_order} :
          detector' = [detector EXCEPT !.role_order = role_order]
    /\ UNCHANGED <<matcherVars, bufferVars, driverVars, orchVars, runs, search, extractor, dbm>>

\* detect_all_gaps(days_back)
GapDetect ==
    /\ \E days_back \in DaysBack :
          detector' = [detector EXCEPT !.last =
                          DetectAllGaps(detector.decisions, detector.slack_messages,
                                        detector.now, days_back, detector.role_order)]
    /\ UNCHANGED <<matcherVars, bufferVars, driverVars, orchVars, runs, search, extractor, dbm>>

GapNext == GapAddDecision \/ GapAddMessage \/ GapTick \/ GapRestart \/ GapDetect

SpecGaps == GapInit /\ [][GapNext]_vars

-----------------------------------------------------------------------------
(* The entity extractor on its own                                         *)

ExtractorTexts == SUBSET {"REQ-245", "motor", "torque", "@alice"}

\* What the LLM API may give for a text
LLMResponses(words) ==
    {NoObject(kind) : kind \in {"api_error", "no_content", "not_json", "json_array"}}
    \cup {JsonObject(kind, keys, Entities(words \cap RequirementIds, {"actuator"},
                                         {}, {"torque_specs"}, 90)) :
             kind \in {"json_object", "fenced_json_object"},
             keys \in {{"reqs", "components", "users_mentioned", "topics", "confidence"},
                       {"components"}, {}}}

ExtractorInit ==
    /\ MatcherIdle
    /\ BufferIdle
    /\ OrchIdle
    /\ UnitIdle

\* RealtimeEntityExtractor(anthropic_api_key, openai_api_key)
ExtractorConstruct ==
    /\ \E anthropic_ready \in BOOLEAN, openai_ready \in BOOLEAN :
          extractor' = [client |-> ClientOf(anthropic_ready, openai_ready),
                        last |-> [op |-> "none"]]
    /\ UNCHANGED <<matcherVars, bufferVars, driverVars, orchVars, runs, search, detector, dbm>>

\* extract_entities_fast(message_text, user_id, channel_id)
ExtractorCall ==
    /\ \E words \in ExtractorTexts :
          \E response \in LLMResponses(words) :
             extractor' = [extractor EXCEPT !.last =
                              [op |-> "extract_entities_fast", words |-> words,
                               response |-> response]
                              @@ ExtractEntitiesFastWith(extractor.client, words, response)]
    /\ UNCHANGED <<matcherVars, bufferVars, driverVars, orchVars, runs, search, detector, dbm>>

ExtractorNext == ExtractorConstruct \/ ExtractorCall

SpecExtractor == ExtractorInit /\ [][ExtractorNext]_vars

-----------------------------------------------------------------------------
(* The database manager on its own: users set priorities and read gaps     *)

GapUsers == {"alice", "bob", "carol"}

Priorities == {1, 2, 4}

DbmInit ==
    /\ MatcherIdle
    /\ BufferIdle
    /\ OrchIdle
    /\ UnitIdle

\* update_gap_priority(decision_id, priority, user_id)
DbmUpdate ==
    /\ \E decision_id \in DOMAIN dbm.decision_details, priority \in Priorities,
          user_id \in GapUsers, fail \in BOOLEAN :
          LET r == UpdateGapPriority(dbm.decision_details, decision_id, priority,
                                     user_id, fail)
          IN  dbm' = [decision_details |-> r.decision_details,
                      last |-> [op |-> "update_gap_priority",
                                decision_id |-> decision_id, priority |-> priority,
                                user_id |-> user_id, ok |-> r.ok]]
    /\ UNCHANGED <<matcherVars, bufferVars, driverVars, orchVars, runs, search, detector, extractor>>

\* get_gaps(user_id)
DbmGetGaps ==
    /\ \E user_id \in GapUsers :
          dbm' = [dbm EXCEPT !.last =
                     [op |-> "get_gaps", user_id |-> user_id,
                      gaps |-> GetGaps(dbm.decision_details, user_id)]]
    /\ UNCHANGED <<matcherVars, bufferVars, driverVars, orchVars, runs, search, detector, extractor>>

DbmNext == DbmUpdate \/ DbmGetGaps

SpecDbm == DbmInit /\ [][DbmNext]_vars

-----------------------------------------------------------------------------
(* The entity extractor with the LLM call as a step of its own: the call   *)
(* is sent, the API answers or raises (or never does), the extractor       *)
(* resumes.  The event loop resumes a coroutine whose await has ended;     *)
(* nothing makes the API answer.                                           *)

\* RealtimeEntityExtractor(...), before any call
ExtractorSetUp ==
    /\ extractor.last.op = "none"
    /\ ExtractorConstruct

\* extract_entities_fast up to `await ...messages.create(...)`; without a
\* client there is nothing to wait for
ExtractBegin ==
    /\ extractor.last.op = "none"
    /\ \E words \in ExtractorTexts :
          extractor' = [extractor EXCEPT !.last =
             IF extractor.client = "none"
               THEN [op |-> "extract_entities_fast", pc |-> "returned",
                     words |-> words, response |-> NoObject("no_call")]
                    @@ ExtractEntitiesFastWith("none", words, NoObject("no_call"))
               ELSE [op |-> "extract_entities_fast", pc |-> "awaiting",
                     words |-> words, response |-> NoObject("no_call"),
                     outcome |-> "none", entities |-> NoEntitiesFound]]
    /\ UNCHANGED <<matcherVars, bufferVars, driverVars, orchVars, runs, search, detector, dbm>>

\* The API call ends: with a response, or by raising
LLMResponds ==
    /\ extractor.last.op = "extract_entities_fast"
    /\ extractor.last.pc = "awaiting"
    /\ \E response \in LLMResponses(extractor.last.words) :
          extractor' = [extractor EXCEPT !.last.pc = "resumed",
                                         !.last.response = response]
    /\ UNCHANGED <<matcherVars, bufferVars, driverVars, orchVars, runs, search, detector, dbm>>

\* extract_entities_fast from the end of the await to its return
ExtractResume ==
    /\ extractor.last.op = "extract_entities_fast"
    /\ extractor.last.pc = "resumed"
    /\ extractor' = [extractor EXCEPT !.last =
          [op |-> "extract_entities_fast", pc |-> "returned",
           words |-> extractor.last.words, response |-> extractor.last.response]
          @@ ExtractEntitiesFastWith(extractor.client, extractor.last.words,
                                     extractor.last.response)]
    /\ UNCHANGED <<matcherVars, bufferVars, driverVars, orchVars, runs, search, detector, dbm>>

\* The caller takes the result; the extractor is free for the next call
ExtractDone ==
    /\ extractor.last.op = "extract_entities_fast"
    /\ extractor.last.pc = "returned"
    /\ extractor' = [extractor EXCEPT !.last = [op |-> "none"]]
    /\ UNCHANGED <<matcherVars, bufferVars, driverVars, orchVars, runs, search, detector, dbm>>

ExtractorLiveNext ==
    ExtractorSetUp \/ ExtractBegin \/ LLMResponds \/ ExtractResume \/ ExtractDone

SpecExtractorLive ==
    /\ ExtractorInit
    /\ [][ExtractorLiveNext]_vars
    /\ WF_vars(ExtractBegin)
    /\ WF_vars(ExtractResume)

-----------------------------------------------------------------------------
(* Properties of the matcher                                               *)

BufUnion(f) == UNION {mBuf[i][f] : i \in DOMAIN mBuf}

SharedReqs       == mNew.reqs \cap BufUnion("reqs")
SharedComponents == mNew.components \cap BufUnion("components")
SharedTopics     == mNew.topics \cap BufUnion("topics")

NoEntities(e) == e.reqs = {} /\ e.components = {} /\ e.topics = {}

\* C5: should_inject_context returns false whenever the new message has no
\* requirement, no component and no topic, for every buffer content and
\* every threshold.
C5_EmptyNeverInjects ==
    NoEntities(mNew) => \A t \in Thresholds : mInject[t].inject = FALSE

C5_Witness ==
    /\ NoEntities(mNew)
    /\ Len(mBuf) = 2
    /\ ~NoEntities(mBuf[1])
    /\ mBuf[2].reqs # {}

\* C6: a shared requirement ID gives tier high with score 2.0 x (number of
\* shared IDs), whatever the components and topics are; so it is never
\* ranked below a topic-only match (tier medium).
C6_ReqMatchIsHigh ==
    SharedReqs # {} =>
        /\ mOverlap.tier = "high"
        /\ mOverlap.score = Score(20 * Cardinality(SharedReqs), 10)
        /\ confidence_levels(mOverlap.tier) >= confidence_levels("medium")

C6_Witness ==
    /\ Cardinality(SharedReqs) = 2
    /\ SharedComponents = {}
    /\ Cardinality(SharedTopics) = 2
    /\ mOverlap.score = Score(40, 10)

\* C7: with no shared requirement ID the shared components decide: 2 or
\* more -> high, 1.5 x count; exactly 1 in the core set -> high, 1.5;
\* exactly 1 otherwise -> medium, 1.0; topics are not consulted.
C7_ComponentTier ==
    (SharedReqs = {} /\ SharedComponents # {}) =>
        LET n == Cardinality(SharedComponents)
        IN  mOverlap =
              IF n >= 2 THEN [tier |-> "high", score |-> Score(15 * n, 10)]
              ELSE IF SharedComponents \subseteq
                        {"motor", "pcb", "firmware", "power_supply"}
                     THEN [tier |-> "high", score |-> Score(15, 10)]
                     ELSE [tier |-> "medium", score |-> Score(10, 10)]

C7_Witness ==
    /\ SharedReqs = {}
    /\ SharedComponents = {"thermal"}
    /\ Cardinality(SharedTopics) = 2
    /\ mOverlap = [tier |-> "medium", score |-> Score(10, 10)]

\* The similarity of C8, by counting: 1.0 per exact pair, 0.7 per synonym
\* pair, over the number of compared pairs.
Related(a, b) ==
    \/ b \in synonym_map(a)
    \/ a \in synonym_map(b)
    \/ synonym_map(a) \cap synonym_map(b) # {}

ComparedPairs == mNew.components \X BufUnion("components")
ExactPairs    == {p \in ComparedPairs : p[1] = p[2]}
SynonymPairs  == {p \in ComparedPairs : p[1] # p[2] /\ Related(p[1], p[2])}

\* (10 * exact + 7 * synonym) / (10 * compared) >= 6/10
SimilarityAtLeastSixTenths ==
    /\ ComparedPairs # {}
    /\ (10 * Cardinality(ExactPairs) + 7 * Cardinality(SynonymPairs)) * 10
          >= 6 * 10 * Cardinality(ComparedPairs)

\* C8: with no shared requirement ID and no shared component: 2 or more
\* shared topics -> medium, 0.8 x count; otherwise medium if the synonym
\* similarity is at least 0.6; otherwise none with score 0 (also for an
\* empty buffer).
C8_TopicSynonymNone ==
    (SharedReqs = {} /\ SharedComponents = {}) =>
        IF Cardinality(SharedTopics) >= 2
          THEN mOverlap = [tier  |-> "medium",
                           score |-> Score(8 * Cardinality(SharedTopics), 10)]
        ELSE IF SimilarityAtLeastSixTenths
          THEN mOverlap.tier = "medium"
        ELSE mOverlap = [tier |-> "none", score |-> Zero]

C8_Witness ==
    /\ SharedReqs = {} /\ SharedComponents = {}
    /\ Cardinality(SharedTopics) < 2
    /\ SimilarityAtLeastSixTenths
    /\ mOverlap.tier = "medium"

-----------------------------------------------------------------------------
(* Properties of the buffer                                                *)


\* C1: after any sequence of add_message calls a channel's buffer holds at
\* most MAX_MESSAGES_PER_CHANNEL entries and get_recent_context never
\* returns more than that many messages.
C1_BufferBound ==
    /\ \A c \in Channels : Len(zset[c]) <= MAX_MESSAGES_PER_CHANNEL
    /\ lastOp.op = "query" => Len(lastOp.result) <= MAX_MESSAGES_PER_CHANNEL

\* The score (time of the add) of a returned message.
AddedAt(c, m) == (CHOOSE x \in Range(zset[c]) : x.member = ToRedisJson(m)).score

\* C2: get_recent_context never returns a message added more than
\* BUFFER_TTL before the query, whatever max_age_minutes is and whatever
\* adds came later.
C2_NothingOlderThanTTL ==
    lastOp.op = "query" =>
        \A m \in Range(lastOp.result) :
            now - AddedAt(BufferChannel, m) <= BUFFER_TTL


-----------------------------------------------------------------------------
(* Properties of the ingest pipeline                                       *)

Returned(c) == c.pc = "done" /\ DOMAIN c.result # {}

\* C3: process_incoming_message never raises to its caller.  Whatever fails
\* (extractor, buffer, SQL store, responder), a call is at one of its steps
\* or has ended; a call that ended has returned a result dictionary with the
\* three outcome flags, and that dictionary carries an error field when an
\* exception cut the pipeline short.
C3_NeverRaises ==
    \A i \in DOMAIN calls :
       LET c == calls[i]
       IN  /\ c.pc \in {"extract", "check", "gap", "done"}
           /\ c.pc = "done" =>
                 /\ Returned(c)
                 /\ {"decision_created", "context_injected", "gap_created"}
                       \subseteq DOMAIN c.result
                 /\ c.interrupted => "error" \in DOMAIN c.result

\* Two calls have returned: one after a failed buffer write that it
\* survived, one cut short by an exception and reporting the error.
C3_Witness ==
    /\ \E i \in DOMAIN calls :
          /\ Returned(calls[i])
          /\ calls[i].interrupted
          /\ "error" \in DOMAIN calls[i].result
    /\ \E i \in DOMAIN calls :
          /\ Returned(calls[i])
          /\ calls[i].add_called
          /\ ~calls[i].redis_success
          /\ ~calls[i].interrupted

\* The calls whose add_message returned False
FailedWrites == {i \in DOMAIN calls : calls[i].add_called /\ ~calls[i].redis_success}

\* C4: when add_message returns False for a message, the call still
\* completes (it goes on to the context check and returns a dictionary),
\* redis_failures was incremented exactly once for it, and its result
\* reports context_injected = false, as if the buffer were empty.
C4_FailedWriteIsEmptyBuffer ==
    /\ stats.redis_failures = Cardinality(FailedWrites)
    /\ \A i \in FailedWrites :
          LET c == calls[i]
          IN  /\ c.pc \in {"check", "gap", "done"}
              /\ c.pc = "done" =>
                    /\ Returned(c)
                    /\ c.result.context_injected = FALSE

\* The part of C4 the code keeps: the call completes and the failure is
\* counted exactly once.
C4_FailureCounted ==
    /\ stats.redis_failures = Cardinality(FailedWrites)
    /\ \A i \in FailedWrites :
          LET c == calls[i]
          IN  /\ c.pc \in {"check", "gap", "done"}
              /\ c.pc = "done" => Returned(c)

\* The text contains one of the fixed decision keywords
ContainsDecisionKeyword(text) ==
    \E k \in {"decision", "decided", "approved", "selected", "chose",
              "updated", "changed", "requirement", "spec"} :
       \E w \in text : k \in KeywordsIn(w)

\* The three criteria of a decision
DecisionCriteria(c) ==
    \/ Cardinality(c.entities.reqs) >= 1
    \/ Cardinality(c.entities.components) >= 2 /\ ContainsDecisionKeyword(c.text)
    \/ c.entities.confidence > 80 /\ Cardinality(c.entities.topics) >= 2

\* The decision rows written for a call
DecisionRows(c) ==
    {d \in decisions : d.thread_id = <<c.channel_id, c.message_id>>}

\* C9: _is_decision_worthy returns true exactly when the message references
\* a requirement ID, or names at least 2 components and its text contains a
\* decision keyword, or has confidence above 0.8 and at least 2 topics;
\* otherwise it returns false and no decision record is created.
C9_DecisionWorthy ==
    \A i \in DOMAIN calls :
       LET c == calls[i]
       IN  c.add_called =>
              /\ c.worthy <=> DecisionCriteria(c)
              /\ ~DecisionCriteria(c) =>
                    /\ c.decision_id = NoDecision
                    /\ DecisionRows(c) = {}

\* One call was found worthy by the confidence criterion alone and has its
\* decision row; another, with the same text at confidence 0.8, was not.
C9_Witness ==
    /\ \E i \in DOMAIN calls :
          /\ calls[i].add_called
          /\ calls[i].worthy
          /\ calls[i].entities.reqs = {}
          /\ ~ContainsDecisionKeyword(calls[i].text)
          /\ DecisionRows(calls[i]) # {}
    /\ \E i \in DOMAIN calls :
          /\ calls[i].add_called
          /\ ~calls[i].worthy
          /\ calls[i].entities.confidence = 80
          /\ Cardinality(calls[i].entities.topics) >= 2
          /\ DecisionRows(calls[i]) = {}

\* C10: in a channel's buffer a message that arrived earlier (message_id is
\* the arrival number) is never ranked newer than a message that arrived
\* later, whatever the interleaving of the calls.
C10_ArrivalOrder ==
    \A ch \in Channels :
       \A i, j \in DOMAIN zset[ch] :
          i < j => FromRedisJson(zset[ch][i].member).message_id
                      < FromRedisJson(zset[ch][j].member).message_id


\* Every call made so far has returned
AllReturned == calls # <<>> /\ \A i \in DOMAIN calls : calls[i].pc = "done"

\* The call went through the whole pipeline: its dictionary is the one of
\* the return statement, not the one of the outer exception handler
CompletedPipeline(c) == Returned(c) /\ "entities_extracted" \in DOMAIN c.result

\* The return statement of the call raised after the counters were updated
ReturnRaised(c) == Returned(c) /\ c.add_called /\ ~CompletedPipeline(c)

\* C11: no counter update is lost.  Once all calls have returned,
\* messages_processed is the number of calls that completed the pipeline,
\* context_injections the number of results with context_injected = true and
\* gaps_created the number of results with gap_created = true.
C11_CountersMatchResults ==
    AllReturned =>
       /\ stats.messages_processed
             = Cardinality({i \in DOMAIN calls : CompletedPipeline(calls[i])})
       /\ stats.context_injections
             = Cardinality({i \in DOMAIN calls : calls[i].result.context_injected})
       /\ stats.gaps_created
             = Cardinality({i \in DOMAIN calls : calls[i].result.gap_created})

\* The part of C11 the code keeps: the counters agree with the results under
\* every interleaving as long as no return statement raised.
C11_NoLostUpdate ==
    (AllReturned /\ \A i \in DOMAIN calls : ~ReturnRaised(calls[i])) =>
       /\ stats.messages_processed
             = Cardinality({i \in DOMAIN calls : CompletedPipeline(calls[i])})
       /\ stats.context_injections
             = Cardinality({i \in DOMAIN calls : calls[i].result.context_injected})
       /\ stats.gaps_created
             = Cardinality({i \in DOMAIN calls : calls[i].result.gap_created})


\* C12: after more than 30 adds to one channel the entries that remain are
\* the 30 with the largest message timestamps, whatever the order of the
\* timestamps the callers pass: an add never drops an entry whose timestamp
\* is larger than that of an entry it keeps, and a query returns only kept
\* entries.
C12_KeepsLargestTimestamps ==
    [][nAdds' = nAdds + 1 =>
          LET kept    == Range(zset'[BufferChannel])
              dropped == Range(zset[BufferChannel]) \ kept
          IN  /\ Cardinality(kept) <= MAX_MESSAGES_PER_CHANNEL
              /\ \A d \in dropped : \A k \in kept : StampOf(d) <= StampOf(k)]_vars


\* The status of the row with this decision_id
StatusOf(table, id) == (CHOOSE d \in table : d.decision_id = id).embedding_status

\* The status changes of the embedding state machine
AllowedStatusChanges ==
    {<<"pending", "embedded">>, <<"pending", "failed">>, <<"failed", "pending">>}

\* C13: every decision is created with status pending; afterwards its status
\* changes only by pending -> embedded, pending -> failed or
\* failed -> pending, also with concurrent batch runs and resets; and no
\* decision is ever deleted.
C13_EmbeddingStateMachine ==
    [][LET old == {d.decision_id : d \in decisions}
       IN  /\ \A d \in decisions' :
                d.decision_id \notin old => d.embedding_status = "pending"
           /\ \A id \in old :
                /\ \E d \in decisions' : d.decision_id = id
                /\ \/ StatusOf(decisions', id) = StatusOf(decisions, id)
                   \/ <<StatusOf(decisions, id), StatusOf(decisions', id)>>
                         \in AllowedStatusChanges]_vars


\* The latest hybrid_search call returned
SearchReturned == search.last.op = "hybrid_search" /\ search.last.outcome = "returned"

\* C14: each result of a hybrid_search call is one of the stage-1 candidates
\* of that call, at most `limit` results are returned, and with a non-blank
\* query the results are in order of non-increasing similarity score.
C14_ResultsFromCandidates ==
    SearchReturned =>
       LET c == search.last
       IN  /\ \A i \in DOMAIN c.results :
                \E j \in DOMAIN c.candidates :
                   c.candidates[j].decision_id = c.results[i].decision_id
           /\ Len(c.results) <= c.limit
           /\ ~Blank(c.query_text) =>
                 \A i, j \in DOMAIN c.results :
                    i < j => c.results[i].similarity_score
                                >= c.results[j].similarity_score

\* A non-blank query returned two results that stage 1 found in the other
\* order, out of more candidates than the limit.
C14_Witness ==
    /\ SearchReturned
    /\ ~Blank(search.last.query_text)
    /\ Len(search.last.results) = 2
    /\ Len(search.last.candidates) > 2
    /\ search.last.results[1].similarity_score > search.last.results[2].similarity_score
    /\ search.last.results[1].timestamp < search.last.results[2].timestamp


\* The decision_ids of a list of candidates or results, in order
IdsOf(list) == [i \in DOMAIN list |-> list[i].decision_id]

\* The list is in recency order: newest first
RecencyOrder(list) ==
    \A i, j \in DOMAIN list : i < j => list[i].timestamp > list[j].timestamp

\* The latest call was a blank query
BlankQueryReturned == SearchReturned /\ Blank(search.last.query_text)

\* C15 as stated: with empty or whitespace-only query text the results equal
\* the stage-1 candidates, in recency order, and the stats report
\* semantic_search_time_ms = 0, query_type = sql_only and final_results
\* equal to candidates_found.
C15_BlankQueryEqualsCandidates ==
    BlankQueryReturned =>
       LET c == search.last
       IN  /\ IdsOf(c.results) = IdsOf(c.candidates)
           /\ RecencyOrder(c.results)
           /\ c.stats.semantic_search_time_ms = 0
           /\ c.stats.query_type = "sql_only"
           /\ c.stats.final_results = c.stats.candidates_found

\* C15 amended: with empty or whitespace-only query text the results are
\* the first `limit` stage-1 candidates, in recency order, and the stats
\* report semantic_search_time_ms = 0, query_type = sql_only,
\* candidates_found = the number of candidates and final_results = the
\* smaller of candidates_found and limit.
C15_BlankQueryFirstLimitCandidates ==
    BlankQueryReturned =>
       LET c == search.last
       IN  /\ IdsOf(c.results) = IdsOf(Take(c.candidates, c.limit))
           /\ RecencyOrder(c.results)
           /\ c.stats.semantic_search_time_ms = 0
           /\ c.stats.query_type = "sql_only"
           /\ c.stats.candidates_found = Len(c.candidates)
           /\ c.stats.final_results = Min(c.stats.candidates_found, c.limit)

\* A whitespace-only query found more candidates than its limit and
\* returned the newest `limit` of them.
C15_Witness ==
    /\ BlankQueryReturned
    /\ search.last.query_text = "  "
    /\ search.last.limit = 2
    /\ Len(search.last.candidates) = 3
    /\ IdsOf(search.last.results) = <<3, 2>>

\* C16: when the query of a non-blank hybrid_search cannot be embedded, the
\* search does not fail: it returns results drawn from the stage-1
\* candidates, with similarity score 0.
C16_BackendDownStillReturns ==
    (/\ search.last.op = "hybrid_search"
     /\ ~Blank(search.last.query_text)
     /\ ~search.last.encoder_up) =>
       /\ search.last.outcome = "returned"
       /\ \A i \in DOMAIN search.last.results :
             /\ search.last.results[i].similarity_score = 0
             /\ \E j \in DOMAIN search.last.candidates :
                   search.last.candidates[j].decision_id
                      = search.last.results[i].decision_id


-----------------------------------------------------------------------------
(* Properties of the gap detector                                          *)

DetectorReported == detector.last.op = "detect_all_gaps"

\* The users who own an affected component of the decision, without its
\* author and without the participants of its thread
DistinctMissing(decision) ==
    ({u.user_id : u \in {x \in Range(user_profiles) :
                            x.owned_components
                               \cap Range(decision.affected_components) # {}}}
        \ {decision.author_user_id})
        \ Participants(detector.slack_messages, decision.thread_id)

\* The missing-stakeholder gaps the latest report holds for the decision
ReportedFor(decision) ==
    {g \in Range(detector.last.missing_stakeholders) :
        g.decision_id = decision.decision_id}

\* C17: for each decision, with missing = the owners of its affected
\* components minus its author minus the participants of its thread, a
\* missing-stakeholder gap is reported iff missing is non-empty, and the
\* gap is critical exactly when more than 2 distinct users are missing or
\* a missing user holds a lead role, and warning otherwise; a user who owns
\* several affected components counts once.
C17_MissingStakeholderSeverity ==
    DetectorReported =>
       \A i \in DOMAIN detector.last.decisions :
          LET decision == detector.last.decisions[i]
              missing == DistinctMissing(decision)
          IN  /\ ReportedFor(decision) # {} <=> missing # {}
              /\ \A g \in ReportedFor(decision) :
                    g.severity =
                       IF \/ Cardinality(missing) > 2
                          \/ \E u \in missing : EndsWithLead(UserProfile(u).role)
                         THEN "critical" ELSE "warning"

\* The gaps of a report, family by family
GapsOf(report) ==
    [missing_stakeholders |-> Range(report.missing_stakeholders),
     conflicts |-> Range(report.conflicts),
     broken_dependencies |-> Range(report.broken_dependencies)]

\* C18: detect_all_gaps run twice over unchanged decisions, thread messages
\* and ownership, with the same window, reports the same gaps in each of
\* the three families, with equal content.
C18_DetectTwiceSameGaps ==
    [][(/\ DetectorReported
        /\ detector'.last.op = "detect_all_gaps"
        /\ detector'.decisions = detector.decisions
        /\ detector'.slack_messages = detector.slack_messages
        /\ detector'.last.days_back = detector.last.days_back
        /\ detector'.last.cutoff = detector.last.cutoff)
          => GapsOf(detector'.last) = GapsOf(detector.last)]_vars

-----------------------------------------------------------------------------
(* Properties of gap creation at ingest                                    *)

\* The matching context of call c holds a message of another user, and no
\* message of it mentions the user of c
AsksAboutAnothersMessage(c) ==
    /\ \E k \in DOMAIN c.matching_contexts :
          c.matching_contexts[k].message.user_id # c.user_id
    /\ \A k \in DOMAIN c.matching_contexts :
          Mention(c.user_id)
             \notin c.matching_contexts[k].message.entities.users_mentioned

\* C19: when the message of user B matches buffered context that stems from
\* an earlier message of user A, and B was not part of A's discussion, the
\* ingest of B's message creates no missing_stakeholder gap for B: the step
\* that ends the call inserts no gap with B as assignee and the result
\* reports gap_created = false.
C19_NoGapForAsker ==
    [][\A i \in DOMAIN calls :
          (/\ calls[i].pc = "gap"
           /\ AsksAboutAnothersMessage(calls[i])
           /\ Returned(calls'[i]))
             => /\ ~calls'[i].result.gap_created
                /\ \A g \in gaps' \ gaps :
                      ~(/\ g.type = "missing_stakeholder"
                        /\ g.assignee_id = calls[i].user_id)]_vars

-----------------------------------------------------------------------------
(* Properties of the entity extractor                                      *)

\* The responses from which no entities can be read: the call raised, or
\* what came back is not a JSON object
FailedResponses == {"api_error", "no_content", "not_json", "json_array"}

ExtractorReturned == extractor.last.op = "extract_entities_fast"

\* C20: extract_entities_fast never raises: without an LLM client, or when
\* the LLM call raises or its response is malformed, it returns the regex
\* extraction of the text, with confidence 0.6; only a response that was
\* parsed yields the entities of the LLM.
C20_FallsBackToRegex ==
    ExtractorReturned =>
       LET c == extractor.last
           failed == \/ extractor.client = "none"
                     \/ c.response.kind \in FailedResponses
       IN  /\ c.outcome = "returned"
           /\ failed => /\ c.entities = ExtractWithRegex(c.words)
                        /\ c.entities.confidence = 60
           /\ c.entities # ExtractWithRegex(c.words) =>
                 /\ ~failed
                 /\ c.entities.components \subseteq c.response.data.components
                 /\ c.entities.confidence \in {c.response.data.confidence, 80}

\* With an LLM client set up, the API call raised and the call returned
\* what the regex patterns find in the text
C20_Witness ==
    /\ ExtractorReturned
    /\ extractor.client = "anthropic"
    /\ extractor.last.response.kind = "api_error"
    /\ extractor.last.outcome = "returned"
    /\ extractor.last.entities =
          Entities({"REQ-245"}, {"motor"}, {"@alice"}, {"mechanical_specs"}, 60)


\* An extract_entities_fast call is under way
Extracting ==
    /\ extractor.last.op = "extract_entities_fast"
    /\ extractor.last.pc # "returned"

\* C21: every call to extract_entities_fast eventually returns, even if the
\* LLM API never answers: the LLM call is cut off after a timeout and the
\* regex extraction is used.
C21_ExtractionReturns ==
    Extracting ~> (/\ extractor.last.op = "extract_entities_fast"
                   /\ extractor.last.pc = "returned")


-----------------------------------------------------------------------------
(* Properties of partial completion                                        *)

\* C22: a partly completed ingest is never dropped silently: when a call
\* persisted a decision record, its result reports decision_created = true
\* with that decision_id, also when a later step fails; and every buffer
\* write that was skipped is counted in redis_failures.
C22_PartialCompletionReported ==
    /\ stats.redis_failures = Cardinality(FailedWrites)
    /\ \A i \in DOMAIN calls :
          (Returned(calls[i]) /\ calls[i].decision_id # NoDecision) =>
             /\ calls[i].result.decision_created
             /\ "decision_id" \in DOMAIN calls[i].result
             /\ calls[i].result.decision_id = calls[i].decision_id


-----------------------------------------------------------------------------
(* Properties of gap priorities                                            *)

\* C23: the priority of a gap is an annotation per user: after
\* update_gap_priority for a gap on behalf of one user, the priority and
\* the severity that get_gaps reports for that gap to any other user are
\* what they were before.
C23_PriorityIsPerUser ==
    [][(/\ dbm'.last.op = "update_gap_priority"
        /\ dbm' # dbm)
          => \A u2 \in GapUsers \ {dbm'.last.user_id} :
                GetGaps(dbm'.decision_details, u2) = GetGaps(dbm.decision_details, u2)]_vars

-----------------------------------------------------------------------------
(* Properties of the context a message is matched against                  *)

\* The calls other than i whose message was written to the buffer of the
\* channel of call i
BufferedOthers(i) ==
    {j \in DOMAIN calls \ {i} : /\ calls[j].channel_id = calls[i].channel_id
                                 /\ calls[j].redis_success}

\* C24: a result has context_injected = true only if some message other
\* than the current one was buffered in the channel: a message is never
\* matched against itself, and the first message ever seen in a channel
\* never gets context_injected = true.
C24_NoSelfMatch ==
    \A i \in DOMAIN calls :
       (Returned(calls[i]) /\ calls[i].result.context_injected)
          => BufferedOthers(i) # {}

-----------------------------------------------------------------------------
(* Properties of decision IDs                                              *)

\* C25: decision IDs are unique: two distinct messages (distinct
\* message_id) for which a decision record was created were given distinct
\* decision IDs, so that no decision insert is lost to an ID collision.
C25_DecisionIdsUnique ==
    \A i, j \in DOMAIN calls :
       (/\ i # j
        /\ calls[i].decision_id # NoDecision
        /\ calls[j].decision_id # NoDecision)
          => calls[i].decision_id # calls[j].decision_id

-----------------------------------------------------------------------------
(* Properties of stage 1 of the search                                     *)

-----------------------------------------------------------------------------
(* Properties of stored embeddings                                         *)

\* C27: in every state of the decisions table a decision whose embedding
\* status is embedded has an embedding vector (not NULL): the pipeline sets
\* the vector and the status in the same update.
C27_EmbeddedHasVector ==
    \A d \in decisions : d.embedding_status = "embedded" => d.embedding # "none"

\* One decision is embedded and has its vector while another, whose update
\* raised in the same or another batch, is marked failed and has none.
C27_Witness ==
    \E d, e \in decisions :
       /\ d.embedding_status = "embedded" /\ d.embedding = "vector"
       /\ e.embedding_status = "failed" /\ e.embedding = "none"

-----------------------------------------------------------------------------
(* Properties of a failed add                                              *)

\* C28: if add_message returns False, the stored entries of the channel and
\* its expiry are what they were before the call, whichever of the insert,
\* the trim or the refresh of the expiry failed.
C28_FailedAddHasNoEffect ==
    [][(lastOp'.op = "add" /\ ~lastOp'.ok)
          => /\ zset'[BufferChannel] = zset[BufferChannel]
             /\ expiry'[BufferChannel] = expiry[BufferChannel]]_vars

-----------------------------------------------------------------------------
(* Properties of the reported matches                                      *)

\* C29: whenever a result has context_injected = true, it reports at least
\* one matching context: matching_contexts_count >= 1.
C29_InjectedHasMatch ==
    \A i \in DOMAIN calls :
       (Returned(calls[i]) /\ calls[i].result.context_injected)
          => calls[i].result.matching_contexts_count >= 1

-----------------------------------------------------------------------------
(* Properties of the overlap tier as the buffer grows                      *)

\* C30: calculate_overlap_score is monotone in the buffer: with the new
\* message's entities fixed, adding one more buffered message never lowers
\* the tier (none < medium < high).
C30_TierMonotoneInBuffer ==
    [][(mBuf' # mBuf /\ mNew' = mNew)
          => confidence_levels(mOverlap'.tier) >= confidence_levels(mOverlap.tier)]_vars

====
